---- MODULE Spec2Model ----
(***************************************************************************)
(* Artifact generation and download orchestrator of the NotebookLM browser *)
(* automation: the polling monitors, the download confirmation, the batch  *)
(* scheduler and the dialog verification, as state machines over a page    *)
(* that changes on its own between two remote evaluations.                 *)
(*                                                                         *)
(* Time is Date.now() in milliseconds.  A delay(n) advances it by n; a     *)
(* remote evaluation takes 0 ms or EvalLatencyMs.                          *)
(***************************************************************************)
EXTENDS Integers, Sequences, FiniteSets, TLC

\* ------------------------------------------------------------------------
\* Bounds of the model
\* ------------------------------------------------------------------------
MaxInitialCount == 1
MaxSlowEvals == 1
EvalLatencyMs == 1
TimeoutArgMs == 5000
MaxFileSize == 1
MaxRequests == 3
MaxButtons == 2
MaxPageLen == 2
MaxNameLen == 7
MaxMarkups == 2
GeminiTimeoutArgMs == 2000
DownloadTimeoutArgMs == 1000

\* ------------------------------------------------------------------------
\* Program constants (NOTEBOOKLM_TIMEOUTS)
\* ------------------------------------------------------------------------
slidesGeneration == 180000
infographicGeneration == 180000
audioGeneration == 600000
videoGeneration == 900000
artifactPoll == 2000
downloadPollMs == 500
downloadSettleMs == 200
INITIAL_WAIT_MS == 600000
REFRESH_WAIT_MS == 300000
MAX_TOTAL_MS == 1200000
batchPollMs == 30000
maxRefreshes == 2
reloadSettleMs == 5000
maxWait == 30000
reloadPollMs == 1000
dialogPollMs == 100
defaultDialogTimeoutMs == 5000

ArtifactTypes == {"slides", "audio", "video", "infographic"}

\* An optional value: undefined, or a value v.
Undefined == << >>
Some(v) == <<v>>
ValueOf(o) == o[1]

getArtifactTimeout(artifactType) ==
  CASE artifactType = "slides" -> slidesGeneration
    [] artifactType = "audio" -> audioGeneration
    [] artifactType = "video" -> videoGeneration
    [] artifactType = "infographic" -> infographicGeneration
    [] OTHER -> slidesGeneration

\* ------------------------------------------------------------------------
\* The page: the artifacts of one kind, in DOM order.  An artifact is what
\* the evaluated scripts read of it: whether it sits in an
\* .artifact-item-button container, and the four loading indicators of that
\* container.
\* ------------------------------------------------------------------------
NoContainer ==
  [container |-> FALSE, hasShimmer |-> FALSE, isDisabled |-> FALSE,
   isGenerating |-> FALSE, hasSyncIcon |-> FALSE]

ArtifactShapes ==
  {NoContainer} \cup
  [container : {TRUE}, hasShimmer : BOOLEAN, isDisabled : BOOLEAN,
   isGenerating : BOOLEAN, hasSyncIcon : BOOLEAN]

ReadyArtifact ==
  [container |-> TRUE, hasShimmer |-> FALSE, isDisabled |-> FALSE,
   isGenerating |-> FALSE, hasSyncIcon |-> FALSE]

\* The object the evaluation of the download loop returns for artifacts[i].
LoadResult(page, i) ==
  IF i >= Len(page) THEN [loading |-> FALSE]
  ELSE LET artifact == page[i + 1] IN
       IF ~artifact.container THEN [loading |-> FALSE]
       ELSE [loading |-> artifact.hasShimmer \/ artifact.isGenerating
                           \/ artifact.hasSyncIcon]

\* The four signals the documentation of isArtifactLoading lists.
AnySignal(a) == a.hasShimmer \/ a.isDisabled \/ a.isGenerating \/ a.hasSyncIcon

countArtifacts(page) == Len(page)

\* The outcome that takes a disabled button for a loading indicator too.
LoadingOutcomeFourSignals(page, index) ==
  IF Len(page) = 0 THEN [found |-> FALSE, loading |-> FALSE]
  ELSE LET idx == IF index < 0 THEN Len(page) - 1 ELSE index IN
       IF idx >= Len(page) THEN [found |-> FALSE, loading |-> FALSE]
       ELSE LET artifact == page[idx + 1] IN
            IF ~artifact.container THEN [found |-> TRUE, loading |-> FALSE]
            ELSE [found |-> TRUE, loading |-> AnySignal(artifact)]

\* The object the script of isArtifactLoading returns: found, loading and,
\* when the container exists, the indicators.
LoadingOutcome(page, index) ==
  IF Len(page) = 0 THEN [found |-> FALSE, loading |-> FALSE]
  ELSE LET idx == IF index < 0 THEN Len(page) - 1 ELSE index IN
       IF idx >= Len(page) THEN [found |-> FALSE, loading |-> FALSE]
       ELSE LET artifact == page[idx + 1] IN
            IF ~artifact.container THEN [found |-> TRUE, loading |-> FALSE]
            ELSE [found |-> TRUE,
                  loading |-> artifact.hasShimmer \/ artifact.isGenerating
                                \/ artifact.hasSyncIcon]

isArtifactLoading(page, index) == LoadingOutcome(page, index).loading

VARIABLES
  now,             \* Date.now()
  artifacts,       \* the page's artifacts of the kind, in DOM order
  slowEvals,       \* remote evaluations that took EvalLatencyMs so far
  \* waitForArtifactReady
  artifactType, initialCount, timeout, deadline,
  waitPc,          \* "check" | "delay" | "count" | "loading" | "done"
  iterStart,       \* Date.now() read by the loop condition of this iteration
  pollTime,        \* when this iteration's poll (the count read) returned
  currentCount, loading, artifactAppeared,
  waitResult,      \* "pending" | "true" | "false"
  readyPollSeen,   \* history: some poll saw count > initialCount and not loading
  \* waitForDownload
  dir,             \* the output directory: file name -> size
  existingFiles,   \* the names listed when waitForDownload was called
  dlDeadline,
  dlPc,            \* "idle" | "call" | "check" | "delay" | "poll" | "scan" |
                   \* "settle" | "recheck" | "done"
  pending,         \* new, non-temporary names of the listing not yet visited
  file, stat1, stat2, stat1At,
  dlResult,        \* "pending" | "null" | "threw" | "file" (the file is `file`)
  \* batchGenerateSlides and the downloadAllArtifacts it calls
  audiences,       \* the requests, in order
  batchInitialCount,
  triggered,       \* the audiences whose trigger succeeded, in order
  reqIndex,        \* i of the phase 1 loop
  expectedCount,
  batchPc,
  startTime, allReady, refreshCount,
  windowDeadline,  \* initialDeadline, then refreshDeadline
  reloadStart,     \* refreshPage.start
  pageHasContent,  \* what refreshPage's probe finds after the reload
  submitted,       \* Generate clicks the page received in this run
  audienceList, startIndex, totalCount,
  dlIndex,         \* i of the download loop
  results,         \* the records pushed so far
  attempted,       \* indices for which triggerArtifactDownload was called
  skippedLoading,  \* indices skipped as still loading
  batchResult,     \* "pending" | "returned" | "threw"
  \* the generation workflows up to their Generate click
  workflow,        \* which function runs
  wfPc,
  dialogs,         \* the mat-dialog-container elements, in document order
  editClicked,     \* openCustomizeDialog clicked an edit button
  waitCall,        \* which waitForDialog call of the workflow is running
  wfDeadline,      \* waitForDialog.deadline
  verified,        \* the dialog a waitForDialog with expectedText accepted
  configured,      \* the dialog the option configuration acted on
  clicked,         \* the dialog clickGenerateButton clicked a button of
  wfResult,        \* "pending" | "null" | "generated" | "record" | "threw"
  stages,          \* the stages run so far, each with whether it succeeded
  evalFailed,      \* a Runtime.evaluate of the workflow rejected
  \* one call of a function that only computes
  callFn,          \* its name
  callArgs,        \* its arguments
  callResult,      \* what it returned
  \* runNotebookLMBrowserMode
  runConfig,       \* options.mode, options.notebookUrl, config.manualLogin, config.remoteChrome
  runPc,
  inFlight,        \* the browser commands issued and not yet answered
  runDeadline,     \* the deadline of the wait loop that runs
  runTrace,        \* what the run did so far: step, outcome, whether it threw
  runResult,       \* "pending" | "threw" | "error" | "artifact" | "noArtifact"
  \* waitForGeminiResponse
  baselineText, gmDeadline, lastSnapshot, stableCount,
  gmPc,            \* "idle" | "check" | "iterate" | "done"
  unchangedReads,  \* history: how many of the latest reads of readGeminiResponse,
                   \* all later than the one that set lastSnapshot and with no
                   \* other read between them, returned the text of lastSnapshot
  lastSeen,        \* history: the latest snapshot read that was neither empty
                   \* nor the baseline
  gmResult         \* Undefined, or how the function ended and with what

waitVars ==
  <<artifactType, initialCount, timeout, deadline, waitPc, iterStart, pollTime,
    currentCount, loading, artifactAppeared, waitResult, readyPollSeen>>

dlVars ==
  <<dir, existingFiles, dlDeadline, dlPc, pending, file, stat1, stat2, stat1At,
    dlResult>>

pageVars == <<now, artifacts, slowEvals>>

batchVars ==
  <<audiences, batchInitialCount, triggered, reqIndex, expectedCount, batchPc,
    startTime, allReady, refreshCount, windowDeadline, reloadStart, pageHasContent,
    submitted, audienceList, startIndex, totalCount, dlIndex, results, attempted,
    skippedLoading, batchResult>>

workflowVars ==
  <<workflow, wfPc, dialogs, editClicked, waitCall, wfDeadline, verified,
    configured, clicked, wfResult, stages, evalFailed>>

callVars == <<callFn, callArgs, callResult>>

\* The state of the functions modelled after the four above.
runVars == <<runConfig, runPc, inFlight, runDeadline, runTrace, runResult>>

geminiVars ==
  <<baselineText, gmDeadline, lastSnapshot, stableCount, gmPc, unchangedReads,
    lastSeen, gmResult>>

auxVars == <<callVars, runVars, geminiVars>>

vars == <<pageVars, waitVars, dlVars, batchVars, workflowVars, auxVars>>

\* What the steps of one function leave alone: the state of the others.
notWaitVars == <<dlVars, batchVars, workflowVars, auxVars>>
notDlVars == <<artifacts, slowEvals, waitVars, batchVars, workflowVars, auxVars>>
notBatchVars == <<waitVars, dlVars, workflowVars, auxVars>>
notWorkflowVars == <<waitVars, dlVars, batchVars, auxVars>>
notCallVars == <<pageVars, waitVars, dlVars, batchVars, workflowVars, runVars, geminiVars>>
notRunVars ==
  <<artifacts, slowEvals, waitVars, dlVars, batchVars, workflowVars, callVars, geminiVars>>
notGeminiVars ==
  <<artifacts, slowEvals, waitVars, dlVars, batchVars, workflowVars, callVars, runVars>>

\* A function that is not running.
WaitIdle ==
  /\ artifactType = "slides"
  /\ initialCount = 0
  /\ timeout = 0
  /\ deadline = 0
  /\ waitPc = "idle"
  /\ iterStart = Undefined
  /\ pollTime = Undefined
  /\ currentCount = Undefined
  /\ loading = Undefined
  /\ artifactAppeared = FALSE
  /\ waitResult = "pending"
  /\ readyPollSeen = FALSE

CallIdle ==
  /\ callFn = "none"
  /\ callArgs = Undefined
  /\ callResult = Undefined

RunIdle ==
  /\ runConfig = Undefined
  /\ runPc = "idle"
  /\ inFlight = {}
  /\ runDeadline = 0
  /\ runTrace = << >>
  /\ runResult = "pending"

GeminiIdle ==
  /\ baselineText = << >>
  /\ gmDeadline = 0
  /\ lastSnapshot = Undefined
  /\ stableCount = 0
  /\ gmPc = "idle"
  /\ unchangedReads = 0
  /\ lastSeen = Undefined
  /\ gmResult = Undefined

AuxIdle == CallIdle /\ RunIdle /\ GeminiIdle

WorkflowIdle ==
  /\ workflow = "none"
  /\ wfPc = "idle"
  /\ dialogs = << >>
  /\ editClicked = FALSE
  /\ waitCall = 0
  /\ wfDeadline = 0
  /\ verified = Undefined
  /\ configured = Undefined
  /\ clicked = Undefined
  /\ wfResult = "pending"
  /\ stages = << >>
  /\ evalFailed = FALSE

BatchIdle ==
  /\ audiences = << >>
  /\ batchInitialCount = 0
  /\ triggered = << >>
  /\ reqIndex = 0
  /\ expectedCount = Undefined
  /\ batchPc = "idle"
  /\ startTime = 0
  /\ allReady = FALSE
  /\ refreshCount = 0
  /\ windowDeadline = 0
  /\ reloadStart = 0
  /\ pageHasContent = TRUE
  /\ submitted = 0
  /\ audienceList = Undefined
  /\ startIndex = 0
  /\ totalCount = Undefined
  /\ dlIndex = 0
  /\ results = << >>
  /\ attempted = {}
  /\ skippedLoading = {}
  /\ batchResult = "pending"

DlIdle ==
  /\ dir = << >>
  /\ existingFiles = {}
  /\ dlDeadline = 0
  /\ dlPc = "idle"
  /\ pending = {}
  /\ file = Undefined
  /\ stat1 = Undefined
  /\ stat2 = Undefined
  /\ stat1At = Undefined
  /\ dlResult = "pending"

\* A remote evaluation returns after 0 ms or after EvalLatencyMs.
Evaluate ==
  \/ /\ now' = now
     /\ slowEvals' = slowEvals
  \/ /\ slowEvals < MaxSlowEvals
     /\ now' = now + EvalLatencyMs
     /\ slowEvals' = slowEvals + 1

\* ------------------------------------------------------------------------
\* waitForArtifactReady(Runtime, artifactType, initialCount, logger, timeoutMs)
\* ------------------------------------------------------------------------
TimeoutArgs == {Undefined, Some(TimeoutArgMs)}

WaitInit ==
  /\ now = 0
  /\ slowEvals = 0
  /\ artifactType \in ArtifactTypes
  /\ initialCount \in 0 .. MaxInitialCount
  /\ artifacts = [i \in 1 .. initialCount |-> ReadyArtifact]
  /\ \E timeoutMs \in TimeoutArgs :
       timeout = IF timeoutMs = Undefined THEN getArtifactTimeout(artifactType)
                 ELSE ValueOf(timeoutMs)
  /\ deadline = now + timeout
  /\ waitPc = "check"
  /\ iterStart = Undefined
  /\ pollTime = Undefined
  /\ currentCount = Undefined
  /\ loading = Undefined
  /\ artifactAppeared = FALSE
  /\ waitResult = "pending"
  /\ readyPollSeen = FALSE
  /\ DlIdle
  /\ BatchIdle
  /\ WorkflowIdle
  /\ AuxIdle

\* while (Date.now() < deadline) ... return false
WaitLoopCheck ==
  /\ waitPc = "check"
  /\ iterStart' = Some(now)
  /\ pollTime' = Undefined
  /\ currentCount' = Undefined
  /\ loading' = Undefined
  /\ IF now < deadline
       THEN /\ waitPc' = "delay"
            /\ waitResult' = waitResult
       ELSE /\ waitPc' = "done"
            /\ waitResult' = "false"
  /\ UNCHANGED <<pageVars, artifactType, initialCount, timeout, deadline,
                 artifactAppeared, readyPollSeen>>
  /\ UNCHANGED notWaitVars

\* await delay(pollInterval)
WaitDelay ==
  /\ waitPc = "delay"
  /\ now' = now + artifactPoll
  /\ waitPc' = "count"
  /\ UNCHANGED <<artifacts, slowEvals, artifactType, initialCount, timeout,
                 deadline, iterStart, pollTime, currentCount, loading,
                 artifactAppeared, waitResult, readyPollSeen>>
  /\ UNCHANGED notWaitVars

\* The count test passed by a count that only equals initialCount.
WaitCountAtLeast ==
  /\ waitPc = "count"
  /\ Evaluate
  /\ currentCount' = Some(countArtifacts(artifacts))
  /\ pollTime' = Some(now')
  /\ IF ValueOf(currentCount') >= initialCount
       THEN /\ artifactAppeared' = TRUE
            /\ waitPc' = "loading"
       ELSE /\ artifactAppeared' = artifactAppeared
            /\ waitPc' = "check"
  /\ UNCHANGED <<artifacts, artifactType, initialCount, timeout, deadline,
                 iterStart, loading, waitResult, readyPollSeen>>
  /\ UNCHANGED notWaitVars

\* const currentCount = await countArtifacts(...); if (currentCount > initialCount)
WaitCount ==
  /\ waitPc = "count"
  /\ Evaluate
  /\ currentCount' = Some(countArtifacts(artifacts))
  /\ pollTime' = Some(now')
  /\ IF ValueOf(currentCount') > initialCount
       THEN /\ artifactAppeared' = TRUE
            /\ waitPc' = "loading"
       ELSE /\ artifactAppeared' = artifactAppeared
            /\ waitPc' = "check"
  /\ UNCHANGED <<artifacts, artifactType, initialCount, timeout, deadline,
                 iterStart, loading, waitResult, readyPollSeen>>
  /\ UNCHANGED notWaitVars

\* The same step returning true as soon as the count rose.
WaitLoadingNoCheck ==
  /\ waitPc = "loading"
  /\ Evaluate
  /\ loading' = Some(isArtifactLoading(artifacts, -1))
  /\ readyPollSeen' =
       (readyPollSeen \/ (ValueOf(currentCount) > initialCount /\ ~ValueOf(loading')))
  /\ waitPc' = "done"
  /\ waitResult' = "true"
  /\ UNCHANGED <<artifacts, artifactType, initialCount, timeout, deadline,
                 iterStart, pollTime, currentCount, artifactAppeared>>
  /\ UNCHANGED notWaitVars

\* const loading = await isArtifactLoading(..., -1); if (!loading) return true
WaitLoading ==
  /\ waitPc = "loading"
  /\ Evaluate
  /\ loading' = Some(isArtifactLoading(artifacts, -1))
  /\ readyPollSeen' =
       (readyPollSeen \/ (ValueOf(currentCount) > initialCount /\ ~ValueOf(loading')))
  /\ IF ~ValueOf(loading')
       THEN /\ waitPc' = "done"
            /\ waitResult' = "true"
       ELSE /\ waitPc' = "check"
            /\ waitResult' = waitResult
  /\ UNCHANGED <<artifacts, artifactType, initialCount, timeout, deadline,
                 iterStart, pollTime, currentCount, artifactAppeared>>
  /\ UNCHANGED notWaitVars

\* The remote application, between two evaluations: the new artifact
\* appears (in any shape), changes its indicators one at a time, or
\* disappears again.
PageAppend ==
  /\ waitPc \notin {"idle", "done"}
  /\ Len(artifacts) <= initialCount
  /\ \E a \in ArtifactShapes : artifacts' = Append(artifacts, a)
  /\ UNCHANGED <<now, slowEvals, waitVars>>
  /\ UNCHANGED notWaitVars

\* Two shapes that differ in one thing the script reads.
OneChange(a, b) ==
  Cardinality({f \in {"container", "hasShimmer", "isDisabled", "isGenerating",
                      "hasSyncIcon"} : a[f] # b[f]}) = 1

PageReshape ==
  /\ waitPc \notin {"idle", "done"}
  /\ Len(artifacts) > initialCount
  /\ \E a \in ArtifactShapes :
       /\ OneChange(artifacts[Len(artifacts)], a)
       /\ artifacts' = [artifacts EXCEPT ![Len(artifacts)] = a]
  /\ UNCHANGED <<now, slowEvals, waitVars>>
  /\ UNCHANGED notWaitVars

PageRemove ==
  /\ waitPc \notin {"idle", "done"}
  /\ Len(artifacts) > initialCount
  /\ artifacts' = SubSeq(artifacts, 1, Len(artifacts) - 1)
  /\ UNCHANGED <<now, slowEvals, waitVars>>
  /\ UNCHANGED notWaitVars

WaitNext ==
  \/ WaitLoopCheck
  \/ WaitDelay
  \/ WaitCount
  \/ WaitLoading
  \/ PageAppend
  \/ PageReshape
  \/ PageRemove

SpecWait == WaitInit /\ [][WaitNext]_vars

\* waitForArtifactReady(Runtime, 'slides', 2, logger): two artifacts on the
\* page at the call, the default timeout.
PollsInit ==
  /\ now = 0
  /\ slowEvals = 0
  /\ artifactType = "slides"
  /\ initialCount = 2
  /\ artifacts = <<ReadyArtifact, ReadyArtifact>>
  /\ timeout = getArtifactTimeout(artifactType)
  /\ deadline = now + timeout
  /\ waitPc = "check"
  /\ iterStart = Undefined
  /\ pollTime = Undefined
  /\ currentCount = Undefined
  /\ loading = Undefined
  /\ artifactAppeared = FALSE
  /\ waitResult = "pending"
  /\ readyPollSeen = FALSE
  /\ DlIdle
  /\ BatchIdle
  /\ WorkflowIdle
  /\ AuxIdle

SpecPolls == PollsInit /\ [][WaitNext]_vars

\* ------------------------------------------------------------------------
\* waitForDownload(Browser, outputDir, logger, timeoutMs)
\*
\* File names are sequences of characters.  The synchronous part of the
\* function between two awaits is one step: the directory cannot change
\* inside it.
\* ------------------------------------------------------------------------
StartsWith(s, prefix) ==
  /\ Len(s) >= Len(prefix)
  /\ SubSeq(s, 1, Len(prefix)) = prefix

EndsWith(s, suffix) ==
  /\ Len(s) >= Len(suffix)
  /\ SubSeq(s, Len(s) - Len(suffix) + 1, Len(s)) = suffix

DotCrdownload == <<".", "c", "r", "d", "o", "w", "n", "l", "o", "a", "d">>
DotTmp == <<".", "t", "m", "p">>
Dot == <<".">>

NameBare == <<"a">>
NamePdf == <<"a", ".", "p", "d", "f">>
NamePartial == NamePdf \o DotCrdownload
NameTmp == NameBare \o DotTmp
NameHidden == Dot \o NameBare

FileNames == {NameBare, NamePdf, NamePartial, NameTmp, NameHidden}

\* The skip test that accepts .tmp files and dotfiles.
isTemporaryDownloadCrdownloadOnly(name) == EndsWith(name, DotCrdownload)

\* file.endsWith('.crdownload') || file.endsWith('.tmp') || file.startsWith('.')
isTemporaryDownload(name) ==
  EndsWith(name, DotCrdownload) \/ EndsWith(name, DotTmp) \/ StartsWith(name, Dot)

WithFile(d, name, size) ==
  [n \in DOMAIN d \cup {name} |-> IF n = name THEN size ELSE d[n]]

WithoutFile(d, name) == [n \in DOMAIN d \ {name} |-> d[n]]

DlInit ==
  /\ now = 0
  /\ slowEvals = 0
  /\ artifacts = << >>
  /\ WaitIdle
  /\ BatchIdle
  /\ WorkflowIdle
  /\ AuxIdle
  /\ dir \in {<< >>, WithFile(<< >>, NamePdf, 1)}
  /\ existingFiles = {}
  /\ dlDeadline = 0
  /\ dlPc = "call"
  /\ pending = {}
  /\ file = Undefined
  /\ stat1 = Undefined
  /\ stat2 = Undefined
  /\ stat1At = Undefined
  /\ dlResult = "pending"

\* const deadline = Date.now() + timeoutMs; const existingFiles = new Set(readdirSync)
DlCall ==
  /\ dlPc = "call"
  /\ dlDeadline' = now + DownloadTimeoutArgMs
  /\ existingFiles' = DOMAIN dir
  /\ dlPc' = "check"
  /\ UNCHANGED <<now, dir, pending, file, stat1, stat2, stat1At, dlResult>>
  /\ UNCHANGED notDlVars

\* while (Date.now() < deadline) ... return null
DlLoopCheck ==
  /\ dlPc = "check"
  /\ IF now < dlDeadline
       THEN /\ dlPc' = "delay"
            /\ dlResult' = dlResult
       ELSE /\ dlPc' = "done"
            /\ dlResult' = "null"
  /\ UNCHANGED <<now, dir, existingFiles, dlDeadline, pending, file, stat1, stat2,
                 stat1At>>
  /\ UNCHANGED notDlVars

\* await delay(500)
DlDelay ==
  /\ dlPc = "delay"
  /\ now' = now + downloadPollMs
  /\ dlPc' = "poll"
  /\ UNCHANGED <<dir, existingFiles, dlDeadline, pending, file, stat1, stat2,
                 stat1At, dlResult>>
  /\ UNCHANGED notDlVars

\* const currentFiles = fs.readdirSync(outputDir): the names the for loop
\* will stop at are the new ones that are not temporary download files.
DlPoll ==
  /\ dlPc = "poll"
  /\ pending' = {f \in DOMAIN dir : f \notin existingFiles /\ ~isTemporaryDownload(f)}
  /\ dlPc' = "scan"
  /\ UNCHANGED <<now, dir, existingFiles, dlDeadline, file, stat1, stat2, stat1At,
                 dlResult>>
  /\ UNCHANGED notDlVars

\* for (const file of currentFiles): the next candidate, in the listing's
\* order (any); const stat1 = fs.statSync(filePath) throws when the file is
\* gone since the listing.
DlScan ==
  /\ dlPc = "scan"
  /\ IF pending = {}
       THEN /\ dlPc' = "check"
            /\ file' = Undefined
            /\ stat1' = Undefined
            /\ stat2' = Undefined
            /\ stat1At' = Undefined
            /\ UNCHANGED <<pending, dlResult>>
       ELSE \E f \in pending :
              /\ pending' = pending \ {f}
              /\ file' = Some(f)
              /\ stat2' = Undefined
              /\ IF f \in DOMAIN dir
                   THEN /\ stat1' = Some(dir[f])
                        /\ stat1At' = Some(now)
                        /\ dlPc' = "settle"
                        /\ dlResult' = dlResult
                   ELSE /\ stat1' = Undefined
                        /\ stat1At' = Undefined
                        /\ dlPc' = "done"
                        /\ dlResult' = "threw"
  /\ UNCHANGED <<now, dir, existingFiles, dlDeadline>>
  /\ UNCHANGED notDlVars

\* await delay(200)
DlSettle ==
  /\ dlPc = "settle"
  /\ now' = now + downloadSettleMs
  /\ dlPc' = "recheck"
  /\ UNCHANGED <<dir, existingFiles, dlDeadline, pending, file, stat1, stat2,
                 stat1At, dlResult>>
  /\ UNCHANGED notDlVars

\* The recheck that confirms any file that still exists.
DlRecheckNoSizeTest ==
  /\ dlPc = "recheck"
  /\ IF ValueOf(file) \notin DOMAIN dir
       THEN /\ dlPc' = "scan"
            /\ UNCHANGED <<stat2, dlResult>>
       ELSE /\ stat2' = Some(dir[ValueOf(file)])
            /\ dlPc' = "done"
            /\ dlResult' = "file"
  /\ UNCHANGED <<now, dir, existingFiles, dlDeadline, pending, file, stat1, stat1At>>
  /\ UNCHANGED notDlVars

\* if (!fs.existsSync(filePath)) continue; const stat2 = fs.statSync(filePath);
\* if (stat1.size === stat2.size && stat2.size > 0) return { filename, path }
DlRecheck ==
  /\ dlPc = "recheck"
  /\ IF ValueOf(file) \notin DOMAIN dir
       THEN /\ dlPc' = "scan"
            /\ UNCHANGED <<stat2, dlResult>>
       ELSE /\ stat2' = Some(dir[ValueOf(file)])
            /\ IF ValueOf(stat1) = ValueOf(stat2') /\ ValueOf(stat2') > 0
                 THEN /\ dlPc' = "done"
                      /\ dlResult' = "file"
                 ELSE /\ dlPc' = "scan"
                      /\ dlResult' = dlResult
  /\ UNCHANGED <<now, dir, existingFiles, dlDeadline, pending, file, stat1, stat1At>>
  /\ UNCHANGED notDlVars

\* The browser's download manager and other writers of the directory, while
\* the function is suspended in an await.  What they did before the call is
\* in the initial directory.
FsRunning == dlPc \in {"check", "delay", "poll", "settle", "recheck"}

FsCreate ==
  /\ FsRunning
  /\ \E name \in FileNames \ DOMAIN dir, size \in 0 .. MaxFileSize :
       dir' = WithFile(dir, name, size)
  /\ UNCHANGED <<now, existingFiles, dlDeadline, dlPc, pending, file, stat1, stat2,
                 stat1At, dlResult>>
  /\ UNCHANGED notDlVars

FsWrite ==
  /\ FsRunning
  /\ \E name \in DOMAIN dir :
       /\ dir[name] < MaxFileSize
       /\ dir' = WithFile(dir, name, dir[name] + 1)
  /\ UNCHANGED <<now, existingFiles, dlDeadline, dlPc, pending, file, stat1, stat2,
                 stat1At, dlResult>>
  /\ UNCHANGED notDlVars

\* The finished download is renamed from its .crdownload name.
FsRename ==
  /\ FsRunning
  /\ NamePartial \in DOMAIN dir
  /\ dir' = WithFile(WithoutFile(dir, NamePartial), NamePdf, dir[NamePartial])
  /\ UNCHANGED <<now, existingFiles, dlDeadline, dlPc, pending, file, stat1, stat2,
                 stat1At, dlResult>>
  /\ UNCHANGED notDlVars

FsRemove ==
  /\ FsRunning
  /\ \E name \in DOMAIN dir : dir' = WithoutFile(dir, name)
  /\ UNCHANGED <<now, existingFiles, dlDeadline, dlPc, pending, file, stat1, stat2,
                 stat1At, dlResult>>
  /\ UNCHANGED notDlVars

DlNext ==
  \/ DlCall
  \/ DlLoopCheck
  \/ DlDelay
  \/ DlPoll
  \/ DlScan
  \/ DlSettle
  \/ DlRecheck
  \/ FsCreate
  \/ FsWrite
  \/ FsRename
  \/ FsRemove

SpecDownload == DlInit /\ [][DlNext]_vars

\* ------------------------------------------------------------------------
\* batchGenerateSlides(client, audiences, baseOptions, outputDir, logger)
\* and downloadAllArtifacts(client, 'slides', outputDir, triggered,
\* initialCount, logger) of its phase 3.
\*
\* Date.now() is followed through phase 2 only, where the time taken by a
\* remote evaluation is not counted; the settle delays of phases 1 and 3 are
\* not counted either.
\* ------------------------------------------------------------------------
Min(a, b) == IF a < b THEN a ELSE b

Range(seq) == {seq[k] : k \in 1 .. Len(seq)}

SlideAudiences == <<"technical", "investor", "customer", "executive", "beginner">>

Shimmering == [ReadyArtifact EXCEPT !.hasShimmer = TRUE]

\* The loading test of getArtifactStatus.
ShowsLoading(a) == a.container /\ (a.hasShimmer \/ a.isGenerating \/ a.hasSyncIcon)

\* The status that reports every artifact as ready.
getArtifactStatusReadyIsTotal(page) ==
  LET loadingCount == Cardinality({k \in 1 .. Len(page) : ShowsLoading(page[k])})
  IN [totalCount |-> Len(page), loadingCount |-> loadingCount,
      readyCount |-> Len(page)]

getArtifactStatus(page) ==
  LET loadingCount == Cardinality({k \in 1 .. Len(page) : ShowsLoading(page[k])})
  IN [totalCount |-> Len(page), loadingCount |-> loadingCount,
      readyCount |-> Len(page) - loadingCount]

\* Ready as soon as the expected number of artifacts is listed.
areAllSlidesReadyCountOnly(page, expected) ==
  LET status == getArtifactStatus(page)
  IN status.totalCount >= expected

areAllSlidesReady(page, expected) ==
  LET status == getArtifactStatus(page)
  IN status.totalCount >= expected /\ status.loadingCount = 0

BatchInit ==
  /\ now = 0
  /\ slowEvals = 0
  /\ \E n \in 0 .. MaxInitialCount : artifacts = [k \in 1 .. n |-> ReadyArtifact]
  /\ WaitIdle
  /\ DlIdle
  /\ WorkflowIdle
  /\ AuxIdle
  /\ \E n \in 1 .. MaxRequests : audiences = SubSeq(SlideAudiences, 1, n)
  /\ batchInitialCount = 0
  /\ triggered = << >>
  /\ reqIndex = 0
  /\ expectedCount = Undefined
  /\ batchPc = "start"
  /\ startTime = 0
  /\ allReady = FALSE
  /\ refreshCount = 0
  /\ windowDeadline = 0
  /\ reloadStart = 0
  /\ pageHasContent = TRUE
  /\ submitted = 0
  /\ audienceList = Undefined
  /\ startIndex = 0
  /\ totalCount = Undefined
  /\ dlIndex = 0
  /\ results = << >>
  /\ attempted = {}
  /\ skippedLoading = {}
  /\ batchResult = "pending"

\* hasNotebookSources, closeAnyOpenDialog, initialCount = countArtifacts
BatchStart ==
  /\ batchPc = "start"
  /\ \E hasSources \in BOOLEAN :
       IF hasSources
         THEN /\ batchInitialCount' = countArtifacts(artifacts)
              /\ batchPc' = "trigger"
              /\ batchResult' = batchResult
         ELSE /\ batchInitialCount' = batchInitialCount
              /\ batchPc' = "done"
              /\ batchResult' = "returned"
  /\ UNCHANGED <<audiences, triggered, reqIndex, expectedCount, startTime,
                 allReady, refreshCount, windowDeadline, reloadStart,
                 pageHasContent, submitted, audienceList, startIndex, totalCount,
                 dlIndex, results, attempted, skippedLoading, now, artifacts,
                 slowEvals>>
  /\ UNCHANGED notBatchVars

\* Phase 1 given up at the first request that fails to trigger.
BatchTriggerStopsOnFailure ==
  /\ batchPc = "trigger"
  /\ reqIndex < Len(audiences)
  /\ \E success \in BOOLEAN :
       IF success
         THEN /\ triggered' = Append(triggered, audiences[reqIndex + 1])
              /\ submitted' = submitted + 1
              /\ reqIndex' = reqIndex + 1
         ELSE /\ triggered' = triggered
              /\ submitted' = submitted
              /\ reqIndex' = Len(audiences)
  /\ UNCHANGED <<audiences, batchInitialCount, expectedCount, batchPc, startTime,
                 allReady, refreshCount, windowDeadline, reloadStart,
                 pageHasContent, audienceList, startIndex, totalCount, dlIndex,
                 results, attempted, skippedLoading, batchResult, now, artifacts,
                 slowEvals>>
  /\ UNCHANGED notBatchVars

\* Phase 1, one iteration: success = await triggerSlideGeneration(...);
\* if (success) triggered.push(audience).  A successful trigger has clicked
\* Generate once.
BatchTrigger ==
  /\ batchPc = "trigger"
  /\ reqIndex < Len(audiences)
  /\ \E success \in BOOLEAN :
       IF success
         THEN /\ triggered' = Append(triggered, audiences[reqIndex + 1])
              /\ submitted' = submitted + 1
         ELSE /\ triggered' = triggered
              /\ submitted' = submitted
  /\ reqIndex' = reqIndex + 1
  /\ UNCHANGED <<audiences, batchInitialCount, expectedCount, batchPc, startTime,
                 allReady, refreshCount, windowDeadline, reloadStart,
                 pageHasContent, audienceList, startIndex, totalCount, dlIndex,
                 results, attempted, skippedLoading, batchResult, now, artifacts,
                 slowEvals>>
  /\ UNCHANGED notBatchVars

\* Phase 1 ending with the expected count of the whole request list.
BatchTriggeredCountsRequests ==
  /\ batchPc = "trigger"
  /\ reqIndex = Len(audiences)
  /\ IF Len(triggered) = 0
       THEN /\ batchPc' = "done"
            /\ batchResult' = "returned"
            /\ UNCHANGED <<expectedCount, startTime, allReady, windowDeadline>>
       ELSE /\ expectedCount' = Some(batchInitialCount + Len(audiences))
            /\ startTime' = now
            /\ allReady' = FALSE
            /\ windowDeadline' = Min(now + INITIAL_WAIT_MS, now + MAX_TOTAL_MS)
            /\ batchPc' = "initialCheck"
            /\ batchResult' = batchResult
  /\ UNCHANGED <<audiences, batchInitialCount, triggered, reqIndex, refreshCount,
                 reloadStart, pageHasContent, submitted, audienceList, startIndex,
                 totalCount, dlIndex, results, attempted, skippedLoading, now,
                 artifacts, slowEvals>>
  /\ UNCHANGED notBatchVars

\* if (triggered.length === 0) return []; expectedCount = initialCount +
\* triggered.length; startTime = Date.now(); initialDeadline = ...
BatchTriggered ==
  /\ batchPc = "trigger"
  /\ reqIndex = Len(audiences)
  /\ IF Len(triggered) = 0
       THEN /\ batchPc' = "done"
            /\ batchResult' = "returned"
            /\ UNCHANGED <<expectedCount, startTime, allReady, windowDeadline>>
       ELSE /\ expectedCount' = Some(batchInitialCount + Len(triggered))
            /\ startTime' = now
            /\ allReady' = FALSE
            /\ windowDeadline' = Min(now + INITIAL_WAIT_MS, now + MAX_TOTAL_MS)
            /\ batchPc' = "initialCheck"
            /\ batchResult' = batchResult
  /\ UNCHANGED <<audiences, batchInitialCount, triggered, reqIndex, refreshCount,
                 reloadStart, pageHasContent, submitted, audienceList, startIndex,
                 totalCount, dlIndex, results, attempted, skippedLoading, now,
                 artifacts, slowEvals>>
  /\ UNCHANGED notBatchVars

\* while (Date.now() < initialDeadline)
BatchInitialCheck ==
  /\ batchPc = "initialCheck"
  /\ batchPc' = IF now < windowDeadline THEN "initialDelay" ELSE "refreshCheck"
  /\ UNCHANGED <<audiences, batchInitialCount, triggered, reqIndex, expectedCount,
                 startTime, allReady, refreshCount, windowDeadline, reloadStart,
                 pageHasContent, submitted, audienceList, startIndex, totalCount,
                 dlIndex, results, attempted, skippedLoading, batchResult, now,
                 artifacts, slowEvals>>
  /\ UNCHANGED notBatchVars

\* await delay(30000)
BatchInitialDelay ==
  /\ batchPc = "initialDelay"
  /\ now' = now + batchPollMs
  /\ batchPc' = "initialPoll"
  /\ UNCHANGED <<audiences, batchInitialCount, triggered, reqIndex, expectedCount,
                 startTime, allReady, refreshCount, windowDeadline, reloadStart,
                 pageHasContent, submitted, audienceList, startIndex, totalCount,
                 dlIndex, results, attempted, skippedLoading, batchResult,
                 artifacts, slowEvals>>
  /\ UNCHANGED notBatchVars

\* allReady = await areAllSlidesReady(...); if (allReady) break
BatchInitialPoll ==
  /\ batchPc = "initialPoll"
  /\ allReady' = areAllSlidesReady(artifacts, ValueOf(expectedCount))
  /\ batchPc' = IF allReady' THEN "refreshCheck" ELSE "initialCheck"
  /\ UNCHANGED <<audiences, batchInitialCount, triggered, reqIndex, expectedCount,
                 startTime, refreshCount, windowDeadline, reloadStart,
                 pageHasContent, submitted, audienceList, startIndex, totalCount,
                 dlIndex, results, attempted, skippedLoading, batchResult, now,
                 artifacts, slowEvals>>
  /\ UNCHANGED notBatchVars

\* The refresh loop entered whether or not the artifacts are ready.
BatchRefreshCheckIgnoresReady ==
  /\ batchPc = "refreshCheck"
  /\ IF now - startTime < MAX_TOTAL_MS /\ refreshCount < maxRefreshes
       THEN /\ refreshCount' = refreshCount + 1
            /\ batchPc' = "reload"
       ELSE /\ refreshCount' = refreshCount
            /\ batchPc' = "download"
  /\ UNCHANGED <<audiences, batchInitialCount, triggered, reqIndex, expectedCount,
                 startTime, allReady, windowDeadline, reloadStart, pageHasContent,
                 submitted, audienceList, startIndex, totalCount, dlIndex, results,
                 attempted, skippedLoading, batchResult, now, artifacts, slowEvals>>
  /\ UNCHANGED notBatchVars

\* while (!allReady && Date.now() - startTime < MAX_TOTAL_MS &&
\*        refreshCount < maxRefreshes) { refreshCount++; ... }
\* and, when the loop is left, the end of phase 2 (batchPc = "download").
BatchRefreshCheck ==
  /\ batchPc = "refreshCheck"
  /\ IF ~allReady /\ now - startTime < MAX_TOTAL_MS /\ refreshCount < maxRefreshes
       THEN /\ refreshCount' = refreshCount + 1
            /\ batchPc' = "reload"
       ELSE /\ refreshCount' = refreshCount
            /\ batchPc' = "download"
  /\ UNCHANGED <<audiences, batchInitialCount, triggered, reqIndex, expectedCount,
                 startTime, allReady, windowDeadline, reloadStart, pageHasContent,
                 submitted, audienceList, startIndex, totalCount, dlIndex, results,
                 attempted, skippedLoading, batchResult, now, artifacts, slowEvals>>
  /\ UNCHANGED notBatchVars

\* refreshPage: await Page.reload({}); await delay(5000); const start = Date.now().
\* The reloaded page has its content by the first probe, or stays blank
\* through maxWait.
BatchReload ==
  /\ batchPc = "reload"
  /\ now' = now + reloadSettleMs
  /\ reloadStart' = now'
  /\ pageHasContent' \in BOOLEAN
  /\ batchPc' = "reloadCheck"
  /\ UNCHANGED <<audiences, batchInitialCount, triggered, reqIndex, expectedCount,
                 startTime, allReady, refreshCount, windowDeadline, submitted,
                 audienceList, startIndex, totalCount, dlIndex, results, attempted,
                 skippedLoading, batchResult, artifacts, slowEvals>>
  /\ UNCHANGED notBatchVars

\* refreshPage: while (Date.now() - start < maxWait) { if (page has content)
\* return; await delay(1000) }.  After it:
\* refreshDeadline = Math.min(Date.now() + REFRESH_WAIT_MS, startTime + MAX_TOTAL_MS)
BatchReloadCheck ==
  /\ batchPc = "reloadCheck"
  /\ IF now - reloadStart < maxWait /\ ~pageHasContent
       THEN /\ now' = now + reloadPollMs
            /\ batchPc' = "reloadCheck"
            /\ windowDeadline' = windowDeadline
            /\ pageHasContent' = pageHasContent
       ELSE /\ now' = now
            /\ batchPc' = "refreshWindowCheck"
            /\ windowDeadline' = Min(now + REFRESH_WAIT_MS, startTime + MAX_TOTAL_MS)
            /\ pageHasContent' = TRUE
  /\ UNCHANGED <<audiences, batchInitialCount, triggered, reqIndex, expectedCount,
                 startTime, allReady, refreshCount, reloadStart, submitted,
                 audienceList, startIndex, totalCount, dlIndex, results, attempted,
                 skippedLoading, batchResult, artifacts, slowEvals>>
  /\ UNCHANGED notBatchVars

\* while (Date.now() < refreshDeadline)
BatchRefreshWindowCheck ==
  /\ batchPc = "refreshWindowCheck"
  /\ batchPc' = IF now < windowDeadline THEN "refreshDelay" ELSE "refreshCheck"
  /\ UNCHANGED <<audiences, batchInitialCount, triggered, reqIndex, expectedCount,
                 startTime, allReady, refreshCount, windowDeadline, reloadStart,
                 pageHasContent, submitted, audienceList, startIndex, totalCount,
                 dlIndex, results, attempted, skippedLoading, batchResult, now,
                 artifacts, slowEvals>>
  /\ UNCHANGED notBatchVars

\* await delay(30000)
BatchRefreshDelay ==
  /\ batchPc = "refreshDelay"
  /\ now' = now + batchPollMs
  /\ batchPc' = "refreshPoll"
  /\ UNCHANGED <<audiences, batchInitialCount, triggered, reqIndex, expectedCount,
                 startTime, allReady, refreshCount, windowDeadline, reloadStart,
                 pageHasContent, submitted, audienceList, startIndex, totalCount,
                 dlIndex, results, attempted, skippedLoading, batchResult,
                 artifacts, slowEvals>>
  /\ UNCHANGED notBatchVars

\* allReady = await areAllSlidesReady(...); if (allReady) break
BatchRefreshPoll ==
  /\ batchPc = "refreshPoll"
  /\ allReady' = areAllSlidesReady(artifacts, ValueOf(expectedCount))
  /\ batchPc' = IF allReady' THEN "refreshCheck" ELSE "refreshWindowCheck"
  /\ UNCHANGED <<audiences, batchInitialCount, triggered, reqIndex, expectedCount,
                 startTime, refreshCount, windowDeadline, reloadStart,
                 pageHasContent, submitted, audienceList, startIndex, totalCount,
                 dlIndex, results, attempted, skippedLoading, batchResult, now,
                 artifacts, slowEvals>>
  /\ UNCHANGED notBatchVars

\* Phase 2's locals go out of scope and the clock is followed no further.
Phase2Left ==
  /\ now' = 0
  /\ startTime' = 0
  /\ windowDeadline' = 0
  /\ reloadStart' = 0
  /\ refreshCount' = 0

\* Phase 3 handing the whole request list to downloadAllArtifacts.
BatchDownloadAllNamedByRequests ==
  /\ batchPc = "download"
  /\ audienceList' = Some(audiences)
  /\ startIndex' = batchInitialCount
  /\ totalCount' = Some(Len(artifacts))
  /\ dlIndex' = batchInitialCount
  /\ IF Len(artifacts) = 0 \/ Len(artifacts) <= batchInitialCount
       THEN /\ batchPc' = "done"
            /\ batchResult' = "returned"
       ELSE /\ batchPc' = "downloadLoop"
            /\ batchResult' = batchResult
  /\ Phase2Left
  /\ UNCHANGED <<audiences, batchInitialCount, triggered, reqIndex, expectedCount,
                 allReady, pageHasContent, submitted, results, attempted,
                 skippedLoading, artifacts, slowEvals>>
  /\ UNCHANGED notBatchVars

\* Phase 3 entered only when all expected artifacts became ready.
BatchDownloadAllOnlyWhenReady ==
  /\ batchPc = "download"
  /\ audienceList' = Some(triggered)
  /\ startIndex' = batchInitialCount
  /\ IF ~allReady \/ Len(artifacts) = 0 \/ Len(artifacts) <= batchInitialCount
       THEN /\ batchPc' = "done"
            /\ batchResult' = "returned"
            /\ totalCount' = totalCount
            /\ dlIndex' = dlIndex
       ELSE /\ batchPc' = "downloadLoop"
            /\ batchResult' = batchResult
            /\ totalCount' = Some(Len(artifacts))
            /\ dlIndex' = batchInitialCount
  /\ Phase2Left
  /\ UNCHANGED <<audiences, batchInitialCount, triggered, reqIndex, expectedCount,
                 allReady, pageHasContent, submitted, results, attempted,
                 skippedLoading, artifacts, slowEvals>>
  /\ UNCHANGED notBatchVars

\* Phase 3: downloadAllArtifacts(client, 'slides', outputDir, triggered,
\* initialCount, logger): totalCount, and "No new artifacts to download".
BatchDownloadAll ==
  /\ batchPc = "download"
  /\ audienceList' = Some(triggered)
  /\ startIndex' = batchInitialCount
  /\ totalCount' = Some(Len(artifacts))
  /\ dlIndex' = batchInitialCount
  /\ IF Len(artifacts) = 0 \/ Len(artifacts) <= batchInitialCount
       THEN /\ batchPc' = "done"
            /\ batchResult' = "returned"
       ELSE /\ batchPc' = "downloadLoop"
            /\ batchResult' = batchResult
  /\ Phase2Left
  /\ UNCHANGED <<audiences, batchInitialCount, triggered, reqIndex, expectedCount,
                 allReady, pageHasContent, submitted, results, attempted,
                 skippedLoading, artifacts, slowEvals>>
  /\ UNCHANGED notBatchVars

\* for (let i = startIndex; i < totalCount; i++): the still-loading test
\* (artifacts[i] missing counts as not loading), or the end of the loop and
\* the return of both functions.
DownloadLoop ==
  /\ batchPc = "downloadLoop"
  /\ IF dlIndex < ValueOf(totalCount)
       THEN IF LoadResult(artifacts, dlIndex).loading
              THEN /\ skippedLoading' = skippedLoading \cup {dlIndex}
                   /\ dlIndex' = dlIndex + 1
                   /\ batchPc' = "downloadLoop"
                   /\ batchResult' = batchResult
              ELSE /\ skippedLoading' = skippedLoading
                   /\ dlIndex' = dlIndex
                   /\ batchPc' = "downloadOne"
                   /\ batchResult' = batchResult
       ELSE /\ skippedLoading' = skippedLoading
            /\ dlIndex' = dlIndex
            /\ batchPc' = "done"
            /\ batchResult' = "returned"
  /\ UNCHANGED <<audiences, batchInitialCount, triggered, reqIndex, expectedCount,
                 startTime, allReady, refreshCount, windowDeadline, reloadStart,
                 pageHasContent, submitted, audienceList, startIndex, totalCount,
                 results, attempted, now, artifacts, slowEvals>>
  /\ UNCHANGED notBatchVars

DigitChars == <<"0", "1", "2", "3", "4", "5", "6", "7", "8", "9">>

\* String(n) of a natural number, as a sequence of characters
RECURSIVE StringOf(_)
StringOf(n) ==
  IF n < 10 THEN <<DigitChars[n + 1]>>
  ELSE StringOf(n \div 10) \o <<DigitChars[(n % 10) + 1]>>

\* str.padStart(targetLength, padString) with a padString of one character
RECURSIVE padStart(_, _, _)
padStart(str, targetLength, padString) ==
  IF Len(str) >= targetLength THEN str
  ELSE padStart(<<padString>> \o str, targetLength, padString)

\* The prefix that names the audience and leaves the number out.
PrefixOfAudienceOnly(list, relativeIndex) ==
  [ordinal |-> relativeIndex + 1,
   audience |-> IF relativeIndex + 1 <= Len(list) THEN Some(list[relativeIndex + 1])
                ELSE Undefined,
   text |-> IF relativeIndex + 1 <= Len(list) THEN <<list[relativeIndex + 1]>> ELSE << >>]

\* The prefix numbered by the records made so far, not by the position.
PrefixOfRecordCount(list, relativeIndex) ==
  [ordinal |-> Len(results) + 1,
   audience |-> IF Len(results) + 1 <= Len(list) THEN Some(list[Len(results) + 1])
                ELSE Undefined,
   text |-> padStart(StringOf(Len(results) + 1), 2, "0")
              \o (IF Len(results) + 1 <= Len(list) THEN <<"_", list[Len(results) + 1]>>
                  ELSE << >>)]

\* The prefix of position i: the ordinal relativeIndex + 1 and, when
\* audienceList[relativeIndex] is set, that audience; text is the string
\* `${String(relativeIndex + 1).padStart(2, '0')}_${audienceList[relativeIndex]}`,
\* the audience name kept as one token.
PrefixOf(list, relativeIndex) ==
  [ordinal |-> relativeIndex + 1,
   audience |-> IF relativeIndex + 1 <= Len(list) THEN Some(list[relativeIndex + 1])
                ELSE Undefined,
   text |-> padStart(StringOf(relativeIndex + 1), 2, "0")
              \o (IF relativeIndex + 1 <= Len(list) THEN <<"_", list[relativeIndex + 1]>>
                  ELSE << >>)]

DownloadOutcomes == {"triggerFailed", "timeout", "renameThrows", "ok"}

\* triggerArtifactDownload(i) (false: continue), waitForDownload (null:
\* continue), fs.renameSync (throws: nothing catches it), results.push.
DownloadOne ==
  /\ batchPc = "downloadOne"
  /\ attempted' = attempted \cup {dlIndex}
  /\ \E outcome \in DownloadOutcomes :
       CASE outcome \in {"triggerFailed", "timeout"} ->
              /\ results' = results
              /\ dlIndex' = dlIndex + 1
              /\ batchPc' = "downloadLoop"
              /\ batchResult' = batchResult
         [] outcome = "renameThrows" ->
              /\ results' = results
              /\ dlIndex' = dlIndex
              /\ batchPc' = "done"
              /\ batchResult' = "threw"
         [] outcome = "ok" ->
              /\ results' = Append(results,
                   [index |-> dlIndex,
                    prefix |-> PrefixOf(ValueOf(audienceList), dlIndex - startIndex)])
              /\ dlIndex' = dlIndex + 1
              /\ batchPc' = "downloadLoop"
              /\ batchResult' = batchResult
  /\ UNCHANGED <<audiences, batchInitialCount, triggered, reqIndex, expectedCount,
                 startTime, allReady, refreshCount, windowDeadline, reloadStart,
                 pageHasContent, submitted, audienceList, startIndex, totalCount,
                 skippedLoading, now, artifacts, slowEvals>>
  /\ UNCHANGED notBatchVars

\* The remote application during a batch run: a submitted generation shows
\* up as a new artifact, loading or already complete; a loading artifact
\* completes.
BatchRunning == batchPc \notin {"idle", "start", "done"}

BatchPageAppear ==
  /\ BatchRunning
  /\ Len(artifacts) < batchInitialCount + submitted
  /\ \E a \in {Shimmering, ReadyArtifact} : artifacts' = Append(artifacts, a)
  /\ UNCHANGED <<audiences, batchInitialCount, triggered, reqIndex, expectedCount,
                 batchPc, startTime, allReady, refreshCount, windowDeadline,
                 reloadStart, pageHasContent, submitted, audienceList, startIndex,
                 totalCount, dlIndex, results, attempted, skippedLoading,
                 batchResult, now, slowEvals>>
  /\ UNCHANGED notBatchVars

BatchPageComplete ==
  /\ BatchRunning
  /\ \E k \in 1 .. Len(artifacts) :
       /\ ShowsLoading(artifacts[k])
       /\ artifacts' = [artifacts EXCEPT ![k] = ReadyArtifact]
  /\ UNCHANGED <<audiences, batchInitialCount, triggered, reqIndex, expectedCount,
                 batchPc, startTime, allReady, refreshCount, windowDeadline,
                 reloadStart, pageHasContent, submitted, audienceList, startIndex,
                 totalCount, dlIndex, results, attempted, skippedLoading,
                 batchResult, now, slowEvals>>
  /\ UNCHANGED notBatchVars

BatchNext ==
  \/ BatchStart
  \/ BatchTrigger
  \/ BatchTriggered
  \/ BatchInitialCheck
  \/ BatchInitialDelay
  \/ BatchInitialPoll
  \/ BatchRefreshCheck
  \/ BatchReload
  \/ BatchReloadCheck
  \/ BatchRefreshWindowCheck
  \/ BatchRefreshDelay
  \/ BatchRefreshPoll
  \/ BatchDownloadAll
  \/ DownloadLoop
  \/ DownloadOne
  \/ BatchPageAppear
  \/ BatchPageComplete

SpecBatch == BatchInit /\ [][BatchNext]_vars

\* ------------------------------------------------------------------------
\* The generation workflows, from their start to the Generate click:
\* generateSlides and triggerSlideGeneration of pageActions.ts, generateVideo,
\* generateAudio, generateInfographic and the generateSlides of
\* actions/slideGeneration.ts.
\*
\* A text is the set of phrases it contains: `head` within its first 100
\* characters, `rest` after them.
\* ------------------------------------------------------------------------
GenerateButton ==
  [words |-> {"generate"}, aria |-> {}, disabled |-> FALSE, color |-> "primary"]

CancelButton ==
  [words |-> {"cancel"}, aria |-> {}, disabled |-> FALSE, color |-> "none"]

CloseButton ==
  [words |-> {"close"}, aria |-> {"close"}, disabled |-> FALSE, color |-> "none"]

InsertButton ==
  [words |-> {"insert"}, aria |-> {}, disabled |-> FALSE, color |-> "primary"]

CustomiseDialog ==
  [visible |-> TRUE, head |-> {"customise"}, rest |-> {},
   buttons |-> <<CancelButton, GenerateButton>>, closeControl |-> TRUE]

CustomizeDialog ==
  [visible |-> TRUE, head |-> {"customize"}, rest |-> {},
   buttons |-> <<CancelButton, GenerateButton>>, closeControl |-> TRUE]

\* A customization dialog whose keyword comes after its first 100 characters.
LateKeywordDialog ==
  [visible |-> TRUE, head |-> {}, rest |-> {"customise"},
   buttons |-> <<CancelButton, GenerateButton>>, closeControl |-> TRUE]

UploadDialog ==
  [visible |-> TRUE, head |-> {"add sources", "upload"}, rest |-> {"copied text", "insert"},
   buttons |-> <<CloseButton, InsertButton>>, closeControl |-> TRUE]

\* An upload dialog with no close control and no backdrop to click.
StuckUploadDialog == [UploadDialog EXCEPT !.closeControl = FALSE]

CustomizationDialogs == {CustomiseDialog, CustomizeDialog, LateKeywordDialog}

CustomizationKeywords == {"customise", "customize"}

\* dialog.textContent.toLowerCase() and its slice(0, 100)
TextOf(d) == d.head \cup d.rest

HasCustomizationKeyword(d) == TextOf(d) \cap CustomizationKeywords # {}

\* document.querySelector('mat-dialog-container')
FirstDialog(page) == IF page = << >> THEN Undefined ELSE Some(page[1])

Workflows ==
  {"generateSlides", "triggerSlideGeneration", "generateVideo", "generateAudio",
   "generateInfographic", "slideGeneration.generateSlides"}

\* The waitForDialog calls of a workflow, in order: expectedText, timeoutMs.
WaitForDialogCalls(w) ==
  IF w \in {"generateSlides", "triggerSlideGeneration"}
    THEN <<[expectedText |-> Some("customise"), timeoutMs |-> 5000],
           [expectedText |-> Some("customize"), timeoutMs |-> 2000]>>
    ELSE <<[expectedText |-> Undefined, timeoutMs |-> defaultDialogTimeoutMs]>>

\* One probe of waitForDialog: visible, and with expectedText the first 100
\* characters contain it.
DialogAccepted(page, expectedText) ==
  /\ page # << >>
  /\ page[1].visible
  /\ expectedText # Undefined => ValueOf(expectedText) \in page[1].head

skipPatterns == {"cancel", "close", "insert", "submit", "save", "back"}

shouldSkip(words) == words \cap skipPatterns # {}

FirstIndex(S) == IF S = {} THEN 0 ELSE CHOOSE k \in S : \A j \in S : k <= j

\* The aria-label tier tried ahead of the text tier.
clickGenerateButtonAriaFirst(d) ==
  LET n == Len(d.buttons)
      byText == {k \in 1 .. n : /\ ~d.buttons[k].disabled
                                /\ ~shouldSkip(d.buttons[k].words)
                                /\ "generate" \in d.buttons[k].words}
      byAria == {k \in 1 .. n : /\ ~d.buttons[k].disabled
                                /\ "generate" \in d.buttons[k].aria}
      byColor == {k \in 1 .. n : /\ HasCustomizationKeyword(d)
                                 /\ ~d.buttons[k].disabled
                                 /\ ~shouldSkip(d.buttons[k].words)
                                 /\ d.buttons[k].color \in {"primary", "accent"}}
  IN IF byAria # {} THEN FirstIndex(byAria)
     ELSE IF byText # {} THEN FirstIndex(byText)
     ELSE FirstIndex(byColor)

\* The button of dialog d that clickGenerateButton clicks, 0 when none: by
\* text, then by aria-label, then the primary one of a customization dialog.
clickGenerateButton(d) ==
  LET n == Len(d.buttons)
      byText == {k \in 1 .. n : /\ ~d.buttons[k].disabled
                                /\ ~shouldSkip(d.buttons[k].words)
                                /\ "generate" \in d.buttons[k].words}
      byAria == {k \in 1 .. n : /\ ~d.buttons[k].disabled
                                /\ "generate" \in d.buttons[k].aria}
      byColor == {k \in 1 .. n : /\ HasCustomizationKeyword(d)
                                 /\ ~d.buttons[k].disabled
                                 /\ ~shouldSkip(d.buttons[k].words)
                                 /\ d.buttons[k].color \in {"primary", "accent"}}
  IN IF byText # {} THEN FirstIndex(byText)
     ELSE IF byAria # {} THEN FirstIndex(byAria)
     ELSE FirstIndex(byColor)

\* closeAnyOpenDialog: a visible first dialog that reads as the upload dialog
\* is closed when a close control is found.
closeAnyOpenDialog(page) ==
  IF /\ page # << >>
     /\ page[1].visible
     /\ TextOf(page[1]) \cap {"add sources", "upload", "insert", "copied text"} # {}
     /\ page[1].closeControl
    THEN Tail(page)
    ELSE page

WorkflowInit ==
  /\ now = 0
  /\ slowEvals = 0
  /\ artifacts \in {<< >>, <<ReadyArtifact>>}
  /\ WaitIdle
  /\ DlIdle
  /\ BatchIdle
  /\ AuxIdle
  /\ workflow \in Workflows
  /\ wfPc = "start"
  /\ dialogs \in {<< >>, <<UploadDialog>>, <<StuckUploadDialog>>}
  /\ editClicked = FALSE
  /\ waitCall = 0
  /\ wfDeadline = 0
  /\ verified = Undefined
  /\ configured = Undefined
  /\ clicked = Undefined
  /\ wfResult = "pending"
  /\ stages = << >>
  /\ evalFailed = FALSE

\* What precedes openCustomizeDialog: in generateSlides hasNotebookSources
\* and closeAnyOpenDialog, then (but for triggerSlideGeneration)
\* const initialCount = await countArtifacts(Runtime, kind).
WorkflowStart ==
  /\ wfPc = "start"
  /\ LET counted == Append(stages, [stage |-> "count", ok |-> TRUE,
                                    count |-> countArtifacts(artifacts)])
     IN IF workflow = "generateSlides"
          THEN \E hasSources \in BOOLEAN :
                 IF hasSources
                   THEN /\ dialogs' = closeAnyOpenDialog(dialogs)
                        /\ wfPc' = "open"
                        /\ wfResult' = wfResult
                        /\ stages' = counted
                   ELSE /\ dialogs' = dialogs
                        /\ wfPc' = "done"
                        /\ wfResult' = "null"
                        /\ stages' = stages
          ELSE /\ dialogs' = dialogs
               /\ wfPc' = "open"
               /\ wfResult' = wfResult
               /\ stages' = IF workflow = "triggerSlideGeneration" THEN stages
                            ELSE counted
  /\ UNCHANGED <<workflow, editClicked, waitCall, wfDeadline, verified, configured,
                 clicked, evalFailed, now, artifacts, slowEvals>>
  /\ UNCHANGED notWorkflowVars

\* The count the workflow took before it opened the dialog.
SnapshotCount ==
  LET k == CHOOSE k \in 1 .. Len(stages) : stages[k].stage = "count"
  IN stages[k].count

\* The page after a submission: the new artifact is listed at once or later.
AfterSubmit(page) == {page, Append(page, Shimmering)}

\* openCustomizeDialog, and on its success the start of the first
\* waitForDialog: deadline = Date.now() + timeoutMs. On its failure
\* generateAudio goes on to tryDirectAudioGeneration.
WorkflowOpen ==
  /\ wfPc = "open"
  /\ \E found \in BOOLEAN :
       /\ IF found
         THEN /\ editClicked' = TRUE
              /\ waitCall' = 1
              /\ wfDeadline' = now + WaitForDialogCalls(workflow)[1].timeoutMs
              /\ wfPc' = "wait"
              /\ wfResult' = wfResult
         ELSE /\ editClicked' = FALSE
              /\ waitCall' = waitCall
              /\ wfDeadline' = wfDeadline
              /\ wfPc' = IF workflow = "generateAudio" THEN "direct" ELSE "done"
              /\ wfResult' = IF workflow = "generateAudio" THEN wfResult ELSE "null"
       /\ stages' = Append(stages, [stage |-> "open", ok |-> found])
  /\ UNCHANGED <<workflow, dialogs, verified, configured, clicked, evalFailed, now,
                 artifacts, slowEvals>>
  /\ UNCHANGED notWorkflowVars

\* waitForDialog: while (Date.now() < deadline) { probe; await delay(100) }
\* return false; and the `||` that starts the next call.
WorkflowWaitForDialog ==
  /\ wfPc = "wait"
  /\ LET calls == WaitForDialogCalls(workflow)
         expectedText == calls[waitCall].expectedText
     IN IF now < wfDeadline
          THEN IF DialogAccepted(dialogs, expectedText)
                 THEN /\ verified' = IF expectedText # Undefined THEN Some(dialogs[1])
                                     ELSE verified
                      /\ wfPc' = "configure"
                      /\ stages' = Append(stages, [stage |-> "verify", ok |-> TRUE])
                      /\ UNCHANGED <<now, waitCall, wfDeadline, wfResult>>
                 ELSE /\ now' = now + dialogPollMs
                      /\ UNCHANGED <<verified, wfPc, waitCall, wfDeadline, wfResult,
                                     stages>>
          ELSE IF waitCall < Len(calls)
                 THEN /\ waitCall' = waitCall + 1
                      /\ wfDeadline' = now + calls[waitCall + 1].timeoutMs
                      /\ UNCHANGED <<now, verified, wfPc, wfResult, stages>>
                 ELSE /\ wfPc' = "done"
                      /\ wfResult' = "null"
                      /\ stages' = Append(stages, [stage |-> "verify", ok |-> FALSE])
                      /\ UNCHANGED <<now, verified, waitCall, wfDeadline>>
  /\ UNCHANGED <<workflow, dialogs, editClicked, configured, clicked, evalFailed,
                 artifacts, slowEvals>>
  /\ UNCHANGED notWorkflowVars

\* configure<Kind>Options: the prompt goes into the textarea of the first
\* mat-dialog-container. selectRadioOption, selectToggleOption and
\* fillDialogTextarea report whether they found their field; the result is
\* not read, and the workflow goes on to clickGenerateButton.
WorkflowConfigure ==
  /\ wfPc = "configure"
  /\ configured' = FirstDialog(dialogs)
  /\ wfPc' = "click"
  /\ \E fieldsFound \in BOOLEAN :
       stages' = Append(stages, [stage |-> "configure", ok |-> fieldsFound])
  /\ UNCHANGED <<workflow, dialogs, editClicked, waitCall, wfDeadline, verified,
                 clicked, wfResult, evalFailed, now, artifacts, slowEvals>>
  /\ UNCHANGED notWorkflowVars

\* clickGenerateButton on the first mat-dialog-container; the dialog whose
\* button was clicked closes. triggerSlideGeneration returns here, the
\* generate<Kind> workflows go on to waitForArtifactReady.
WorkflowClickGenerate ==
  /\ wfPc = "click"
  /\ LET generated == dialogs # << >> /\ clickGenerateButton(dialogs[1]) # 0
     IN /\ IF generated
             THEN /\ clicked' = Some(dialogs[1])
                  /\ dialogs' = Tail(dialogs)
                  /\ artifacts' \in AfterSubmit(artifacts)
                  /\ wfPc' = IF workflow = "triggerSlideGeneration" THEN "done" ELSE "ready"
                  /\ wfResult' = IF workflow = "triggerSlideGeneration" THEN "generated"
                                 ELSE wfResult
             ELSE /\ clicked' = clicked
                  /\ dialogs' = dialogs
                  /\ artifacts' = artifacts
                  /\ wfPc' = "done"
                  /\ wfResult' = "null"
        /\ stages' = Append(stages, [stage |-> "submit", ok |-> generated])
  /\ UNCHANGED <<workflow, editClicked, waitCall, wfDeadline, verified, configured,
                 evalFailed, now, slowEvals>>
  /\ UNCHANGED notWorkflowVars

\* tryDirectAudioGeneration: click the button of the audio container, then
\* wait and download as generateAudio does.
WorkflowDirectAudio ==
  /\ wfPc = "direct"
  /\ \E directClicked \in BOOLEAN :
       /\ wfPc' = IF directClicked THEN "ready" ELSE "done"
       /\ wfResult' = IF directClicked THEN wfResult ELSE "null"
       /\ stages' = Append(stages, [stage |-> "submit", ok |-> directClicked])
       /\ artifacts' \in IF directClicked THEN AfterSubmit(artifacts) ELSE {artifacts}
  /\ UNCHANGED <<workflow, dialogs, editClicked, waitCall, wfDeadline, verified,
                 configured, clicked, evalFailed, now, slowEvals>>
  /\ UNCHANGED notWorkflowVars

\* The wait called with a count taken when the wait starts.
WorkflowWaitReadyRecounts ==
  /\ wfPc = "ready"
  /\ \E ready \in BOOLEAN :
       /\ wfPc' = IF ready THEN "download" ELSE "done"
       /\ wfResult' = IF ready THEN wfResult ELSE "null"
       /\ stages' = Append(stages, [stage |-> "ready", ok |-> ready,
                                    initialCount |-> countArtifacts(artifacts)])
  /\ UNCHANGED <<workflow, dialogs, editClicked, waitCall, wfDeadline, verified,
                 configured, clicked, evalFailed, now, artifacts, slowEvals>>
  /\ UNCHANGED notWorkflowVars

\* waitForArtifactReady(Runtime, kind, initialCount, ...), by its result:
\* if (!ready) return null.
WorkflowWaitReady ==
  /\ wfPc = "ready"
  /\ \E ready \in BOOLEAN :
       /\ wfPc' = IF ready THEN "download" ELSE "done"
       /\ wfResult' = IF ready THEN wfResult ELSE "null"
       /\ stages' = Append(stages, [stage |-> "ready", ok |-> ready,
                                    initialCount |-> SnapshotCount])
  /\ UNCHANGED <<workflow, dialogs, editClicked, waitCall, wfDeadline, verified,
                 configured, clicked, evalFailed, now, artifacts, slowEvals>>
  /\ UNCHANGED notWorkflowVars

\* downloadLatestArtifact, by its outcome: the download is not triggered or
\* no file arrives (null), fs.renameSync throws, or the record is returned.
WorkflowDownload ==
  /\ wfPc = "download"
  /\ \E outcome \in {"notTriggered", "noFile", "renameThrows", "saved"} :
       /\ wfResult' = CASE outcome = "saved" -> "record"
                         [] outcome = "renameThrows" -> "threw"
                         [] OTHER -> "null"
       /\ stages' = Append(stages, [stage |-> "download", ok |-> outcome = "saved"])
  /\ wfPc' = "done"
  /\ UNCHANGED <<workflow, dialogs, editClicked, waitCall, wfDeadline, verified,
                 configured, clicked, evalFailed, now, artifacts, slowEvals>>
  /\ UNCHANGED notWorkflowVars

\* The rejection turned into "no artifact".
WorkflowEvaluateRejectsReturnsNull ==
  /\ wfPc \notin {"idle", "done"}
  /\ evalFailed' = TRUE
  /\ wfPc' = "done"
  /\ wfResult' = "null"
  /\ UNCHANGED <<workflow, dialogs, editClicked, waitCall, wfDeadline, verified,
                 configured, clicked, stages, now, artifacts, slowEvals>>
  /\ UNCHANGED notWorkflowVars

\* A Runtime.evaluate of the running workflow rejects: no function of the
\* workflow catches, the rejection reaches the caller.
WorkflowEvaluateRejects ==
  /\ wfPc \notin {"idle", "done"}
  /\ evalFailed' = TRUE
  /\ wfPc' = "done"
  /\ wfResult' = "threw"
  /\ UNCHANGED <<workflow, dialogs, editClicked, waitCall, wfDeadline, verified,
                 configured, clicked, stages, now, artifacts, slowEvals>>
  /\ UNCHANGED notWorkflowVars

\* The remote application opens a customization dialog after the edit click.
DialogOpens ==
  /\ wfPc = "wait"
  /\ editClicked
  /\ \A k \in 1 .. Len(dialogs) : dialogs[k] \notin CustomizationDialogs
  /\ \E d \in CustomizationDialogs : dialogs' = Append(dialogs, d)
  /\ UNCHANGED <<workflow, wfPc, editClicked, waitCall, wfDeadline, verified,
                 configured, clicked, wfResult, stages, evalFailed, now, artifacts,
                 slowEvals>>
  /\ UNCHANGED notWorkflowVars

WorkflowNext ==
  \/ WorkflowStart
  \/ WorkflowOpen
  \/ WorkflowWaitForDialog
  \/ WorkflowConfigure
  \/ WorkflowClickGenerate
  \/ WorkflowDirectAudio
  \/ WorkflowWaitReady
  \/ WorkflowDownload
  \/ WorkflowEvaluateRejects
  \/ DialogOpens

SpecWorkflow == WorkflowInit /\ [][WorkflowNext]_vars

\* ------------------------------------------------------------------------
\* clickGenerateButton on any dialog of up to MaxButtons buttons.
\* ------------------------------------------------------------------------
RECURSIVE SeqsUpTo(_, _)
SeqsUpTo(S, n) ==
  IF n = 0 THEN {<< >>}
  ELSE LET shorter == SeqsUpTo(S, n - 1)
       IN shorter \cup {Append(q, x) : q \in shorter, x \in S}

ClickButtons ==
  [words : {{}, {"generate"}, {"cancel"}, {"generate", "cancel"}},
   aria : {{}, {"generate"}}, disabled : BOOLEAN, color : {"none", "primary"}]

ClickDialogs ==
  [visible : {TRUE}, head : {{}, {"customise"}}, rest : {{}},
   buttons : SeqsUpTo(ClickButtons, MaxButtons), closeControl : {TRUE}]

ClickInit ==
  /\ now = 0
  /\ slowEvals = 0
  /\ artifacts = << >>
  /\ WaitIdle
  /\ DlIdle
  /\ BatchIdle
  /\ WorkflowIdle
  /\ callFn = "clickGenerateButton"
  /\ \E d \in ClickDialogs : callArgs = [dialog |-> d]
  /\ callResult = Undefined
  /\ RunIdle
  /\ GeminiIdle

CallClickGenerateButton ==
  /\ callFn = "clickGenerateButton"
  /\ callResult = Undefined
  /\ callResult' = Some(clickGenerateButton(callArgs.dialog))
  /\ UNCHANGED <<callFn, callArgs>>
  /\ UNCHANGED notCallVars

ClickNext == CallClickGenerateButton

SpecClick == ClickInit /\ [][ClickNext]_vars

\* ------------------------------------------------------------------------
\* waitForMultipleArtifactsReady(Runtime, artifactType, expectedCount, logger,
\* timeoutMs), on the variables of waitForArtifactReady; it returns a count.
\* ------------------------------------------------------------------------
MultiInit ==
  /\ now = 0
  /\ slowEvals = 0
  /\ artifactType \in ArtifactTypes
  /\ initialCount \in 0 .. MaxInitialCount
  /\ artifacts = [i \in 1 .. initialCount |-> ReadyArtifact]
  /\ \E timeoutMs \in TimeoutArgs :
       timeout = IF timeoutMs = Undefined THEN getArtifactTimeout(artifactType)
                 ELSE ValueOf(timeoutMs)
  /\ deadline = now + timeout
  /\ waitPc = "multiCheck"
  /\ iterStart = Undefined
  /\ pollTime = Undefined
  /\ currentCount = Undefined
  /\ loading = Undefined
  /\ artifactAppeared = FALSE
  /\ waitResult = "pending"
  /\ readyPollSeen = FALSE
  /\ DlIdle
  /\ \E n \in 1 .. MaxInitialCount + 1 : expectedCount = Some(n)
  /\ audiences = << >> /\ batchInitialCount = 0 /\ triggered = << >> /\ reqIndex = 0
  /\ batchPc = "idle" /\ startTime = 0 /\ allReady = FALSE /\ refreshCount = 0
  /\ windowDeadline = 0 /\ reloadStart = 0 /\ pageHasContent = TRUE /\ submitted = 0
  /\ audienceList = Undefined /\ startIndex = 0 /\ totalCount = 0 /\ dlIndex = 0
  /\ results = << >> /\ attempted = {} /\ skippedLoading = {} /\ batchResult = Undefined
  /\ WorkflowIdle
  /\ callFn = "waitForMultipleArtifactsReady"
  /\ callArgs = Undefined
  /\ callResult = Undefined
  /\ RunIdle
  /\ GeminiIdle

\* The loop with a delay that leaves the clock where it was.
MultiLoopCheckClockStill ==
  /\ waitPc = "multiCheck"
  /\ IF now < deadline
       THEN /\ now' = now
            /\ waitPc' = "multiStatus"
            /\ callResult' = callResult
       ELSE /\ now' = now
            /\ waitPc' = "done"
            /\ callResult' = Some(getArtifactStatus(artifacts).readyCount)
  /\ UNCHANGED <<artifacts, slowEvals, artifactType, initialCount, timeout, deadline,
                 iterStart, pollTime, currentCount, loading, artifactAppeared,
                 waitResult, readyPollSeen, callFn, callArgs>>
  /\ UNCHANGED <<dlVars, batchVars, workflowVars, runVars, geminiVars>>

\* while (Date.now() < deadline) { await delay(pollInterval); ... } and after
\* the loop: return finalStatus.readyCount
MultiLoopCheck ==
  /\ waitPc = "multiCheck"
  /\ IF now < deadline
       THEN /\ now' = now + artifactPoll
            /\ waitPc' = "multiStatus"
            /\ callResult' = callResult
       ELSE /\ now' = now
            /\ waitPc' = "done"
            /\ callResult' = Some(getArtifactStatus(artifacts).readyCount)
  /\ UNCHANGED <<artifacts, slowEvals, artifactType, initialCount, timeout, deadline,
                 iterStart, pollTime, currentCount, loading, artifactAppeared,
                 waitResult, readyPollSeen, callFn, callArgs>>
  /\ UNCHANGED <<dlVars, batchVars, workflowVars, runVars, geminiVars>>

\* status = await getArtifactStatus(...); return status.readyCount when the
\* expected count is there and nothing is loading
MultiStatus ==
  /\ waitPc = "multiStatus"
  /\ LET status == getArtifactStatus(artifacts)
     IN IF status.totalCount >= ValueOf(expectedCount) /\ status.loadingCount = 0
          THEN /\ waitPc' = "done"
               /\ callResult' = Some(status.readyCount)
          ELSE /\ waitPc' = "multiCheck"
               /\ callResult' = callResult
  /\ UNCHANGED <<now, artifacts, slowEvals, artifactType, initialCount, timeout,
                 deadline, iterStart, pollTime, currentCount, loading,
                 artifactAppeared, waitResult, readyPollSeen, callFn, callArgs>>
  /\ UNCHANGED <<dlVars, batchVars, workflowVars, runVars, geminiVars>>

\* ------------------------------------------------------------------------
\* Every function that waits in a loop, one of them running; each of its
\* steps is taken when it can be: the evaluation or delay it awaits returns.
\* ------------------------------------------------------------------------
\* The two artifact waits are started with a timeoutMs argument, the download
\* wait on an empty directory, the batch with one audience.
LoopsInit ==
  \/ WaitInit /\ timeout = TimeoutArgMs
  \/ MultiInit /\ timeout = TimeoutArgMs
  \/ DlInit /\ dir = << >>
  \/ BatchInit /\ Len(audiences) = 1
  \/ WorkflowInit /\ artifacts = << >>

LoopsNext ==
  \/ WaitNext
  \/ MultiLoopCheck
  \/ MultiStatus
  \/ DlNext
  \/ BatchNext
  \/ WorkflowNext

\* A step of the function that runs, as against a step of the page or of the
\* file system.
LoopsStep ==
  \/ WaitLoopCheck \/ WaitDelay \/ WaitCount \/ WaitLoading
  \/ MultiLoopCheck \/ MultiStatus
  \/ DlCall \/ DlLoopCheck \/ DlDelay \/ DlPoll \/ DlScan \/ DlSettle \/ DlRecheck
  \/ BatchStart \/ BatchTrigger \/ BatchTriggered \/ BatchInitialCheck
  \/ BatchInitialDelay \/ BatchInitialPoll \/ BatchRefreshCheck \/ BatchReload
  \/ BatchReloadCheck \/ BatchRefreshWindowCheck \/ BatchRefreshDelay
  \/ BatchRefreshPoll \/ BatchDownloadAll \/ DownloadLoop \/ DownloadOne
  \/ WorkflowStart \/ WorkflowOpen \/ WorkflowWaitForDialog \/ WorkflowConfigure
  \/ WorkflowClickGenerate \/ WorkflowDirectAudio \/ WorkflowWaitReady
  \/ WorkflowDownload

SpecLoops == LoopsInit /\ [][LoopsNext]_vars /\ WF_vars(LoopsStep)

\* ------------------------------------------------------------------------
\* runNotebookLMBrowserMode(options), local and remote: validation, browser,
\* domains, navigation, login, notebook ready, generation. Each wait reads
\* the clock from its own start: now is 0 where a wait begins.
\* ------------------------------------------------------------------------
navigation == 45000
login == 120000
pageReady == 30000

RunMode == IF runConfig.mode = Undefined THEN "existing" ELSE ValueOf(runConfig.mode)

Event(step, outcome, threw) == [step |-> step, outcome |-> outcome, threw |-> threw]

\* The commands of the Promise.all that enables the domains.
EnableCommands ==
  IF runConfig.remoteChrome
    THEN {"Network.enable", "Page.enable", "Runtime.enable", "Browser.setDownloadBehavior"}
    ELSE {"Network.enable", "Page.enable", "Runtime.enable", "Browser.setDownloadBehavior",
          "DOM.enable"}

RunInit ==
  /\ now = 0
  /\ slowEvals = 0
  /\ artifacts = << >>
  /\ WaitIdle
  /\ DlIdle
  /\ BatchIdle
  /\ WorkflowIdle
  /\ CallIdle
  /\ GeminiIdle
  /\ runConfig \in [mode : {Undefined, Some("existing"), Some("createNew")},
                    notebookUrl : BOOLEAN, manualLogin : BOOLEAN,
                    remoteChrome : BOOLEAN]
  /\ runPc = "validate"
  /\ inFlight = {}
  /\ runDeadline = 0
  /\ runTrace = << >>
  /\ runResult = "pending"

\* The run without the test of its options.
RunValidateNoTest ==
  /\ runPc = "validate"
  /\ runPc' = "connect"
  /\ UNCHANGED <<runConfig, inFlight, runDeadline, runTrace, runResult, now>>
  /\ UNCHANGED notRunVars

\* if (mode === 'existing' && !notebookUrl) throw
RunValidate ==
  /\ runPc = "validate"
  /\ IF RunMode = "existing" /\ ~runConfig.notebookUrl
       THEN /\ runPc' = "done"
            /\ runResult' = "threw"
       ELSE /\ runPc' = "connect"
            /\ runResult' = runResult
  /\ UNCHANGED <<runConfig, inFlight, runDeadline, runTrace, now>>
  /\ UNCHANGED notRunVars

\* launchChrome (local, before the try) and connectToChrome or
\* connectToRemoteChrome (inside the try).
RunConnect ==
  /\ runPc = "connect"
  /\ \E outcome \in {"connected", "launchFails", "connectFails"} :
       /\ outcome = "launchFails" => ~runConfig.remoteChrome
       /\ runTrace' =
            IF outcome = "launchFails"
              THEN Append(runTrace, Event("launchChrome", "failed", TRUE))
              ELSE (IF runConfig.remoteChrome THEN runTrace
                    ELSE Append(runTrace, Event("launchChrome", "ok", FALSE)))
                   \o <<Event("connect", IF outcome = "connected" THEN "ok" ELSE "failed",
                                outcome # "connected")>>
       /\ runPc' = IF outcome = "connected" THEN "enable" ELSE "done"
       /\ runResult' = CASE outcome = "connected" -> runResult
                         [] outcome = "launchFails" -> "threw"
                         [] OTHER -> "error"
  /\ UNCHANGED <<runConfig, inFlight, runDeadline, now>>
  /\ UNCHANGED notRunVars

\* await Promise.all([Network.enable({}), Page.enable(), Runtime.enable(),
\* Browser.setDownloadBehavior(...), DOM?.enable?.()]): every call of the
\* array is made before the first answer is awaited.
RunEnableDomains ==
  /\ runPc = "enable"
  /\ inFlight = {}
  /\ inFlight' = EnableCommands
  /\ runPc' = "enabling"
  /\ UNCHANGED <<runConfig, runDeadline, runTrace, runResult, now>>
  /\ UNCHANGED notRunVars

\* The browser answers one command; Promise.all resolves with the last.
RunCommandReturns ==
  /\ runPc = "enabling"
  /\ \E c \in inFlight :
       /\ inFlight' = inFlight \ {c}
       /\ runPc' = IF inFlight = {c} THEN "navigate" ELSE runPc
  /\ UNCHANGED <<runConfig, runDeadline, runTrace, runResult, now>>
  /\ UNCHANGED notRunVars

\* hideChromeWindow, clearBrowserCookies, syncCookies, each awaited; then
\* navigateToNotebook or navigateToHomepage up to their wait loop.
RunNavigate ==
  /\ runPc = "navigate"
  /\ inFlight = {}
  /\ IF RunMode = "createNew"
       THEN /\ runDeadline' = pageReady
            /\ runPc' = "homepage"
       ELSE /\ runDeadline' = navigation
            /\ runPc' = "documentReady"
  /\ now' = 0
  /\ UNCHANGED <<runConfig, inFlight, runTrace, runResult>>
  /\ UNCHANGED notRunVars

\* waitForDocumentReady: while (Date.now() - start < timeoutMs) { readyState;
\* delay(100) } throw; on return handleGoogleConsent and delay(500).
RunDocumentReady ==
  /\ runPc = "documentReady"
  /\ IF now < runDeadline
       THEN \E ready \in BOOLEAN :
              IF ready
                THEN /\ runTrace' = Append(runTrace, Event("waitForDocumentReady", "ok", FALSE))
                     /\ now' = 0
                     /\ runPc' = "login"
                     /\ runResult' = runResult
                ELSE /\ now' = now + 100
                     /\ UNCHANGED <<runTrace, runPc, runResult>>
       ELSE /\ runTrace' = Append(runTrace, Event("waitForDocumentReady", "expired", TRUE))
            /\ runPc' = "done"
            /\ runResult' = "error"
            /\ now' = now
  /\ UNCHANGED <<runConfig, inFlight, runDeadline>>
  /\ UNCHANGED notRunVars

\* navigateToHomepage: while (Date.now() - startTime < maxWait) { state;
\* delay(500) }; it returns either way; then handleGoogleConsent and delay(500).
RunHomepage ==
  /\ runPc = "homepage"
  /\ IF now < runDeadline
       THEN \E loaded \in BOOLEAN :
              IF loaded
                THEN /\ runTrace' = Append(runTrace, Event("navigateToHomepage", "ok", FALSE))
                     /\ now' = 0
                     /\ runPc' = "login"
                ELSE /\ now' = now + 500
                     /\ UNCHANGED <<runTrace, runPc>>
       ELSE /\ runTrace' = Append(runTrace, Event("navigateToHomepage", "expired", FALSE))
            /\ now' = 0
            /\ runPc' = "login"
  /\ UNCHANGED <<runConfig, inFlight, runDeadline, runResult>>
  /\ UNCHANGED notRunVars

\* What follows a successful login check: the create button in createNew
\* mode, else ensureNotebookReady with deadline = Date.now() + timeoutMs.
AfterLogin == IF RunMode = "createNew" THEN "create" ELSE "notebookReady"

\* The login check that returns whatever the probe says.
RunLoginUnchecked ==
  /\ runPc = "login"
  /\ \E probe \in {"ok", "okAfterPicker", "notLoggedIn"} :
       runTrace' = IF probe # "notLoggedIn"
                     THEN Append(runTrace, Event("ensureNotebookLMLoggedIn", "ok", FALSE))
                     ELSE runTrace
  /\ now' = 0
  /\ runDeadline' = pageReady
  /\ runPc' = AfterLogin
  /\ UNCHANGED <<runConfig, inFlight, runResult>>
  /\ UNCHANGED notRunVars

\* ensureNotebookLMLoggedIn up to its manual wait: probe, account picker with
\* delay(2000) and second probe, then the manual wait or the throw.
RunLogin ==
  /\ runPc = "login"
  /\ \E probe \in {"ok", "okAfterPicker", "notLoggedIn"} :
       IF probe # "notLoggedIn"
         THEN /\ runTrace' = Append(runTrace, Event("ensureNotebookLMLoggedIn", "ok", FALSE))
              /\ now' = 0
              /\ runDeadline' = pageReady
              /\ runPc' = AfterLogin
              /\ runResult' = runResult
         ELSE IF runConfig.manualLogin /\ ~runConfig.remoteChrome
                THEN /\ runDeadline' = login
                     /\ runPc' = "manualLogin"
                     /\ now' = 0
                     /\ UNCHANGED <<runTrace, runResult>>
                ELSE /\ runTrace' = Append(runTrace,
                                           Event("ensureNotebookLMLoggedIn", "failed", TRUE))
                     /\ runPc' = "done"
                     /\ runResult' = "error"
                     /\ UNCHANGED <<runDeadline, now>>
  /\ UNCHANGED <<runConfig, inFlight>>
  /\ UNCHANGED notRunVars

\* ensureNotebookLMLoggedIn, manual login: while (Date.now() < deadline)
\* { probe; delay(2000) } throw
RunManualLogin ==
  /\ runPc = "manualLogin"
  /\ IF now < runDeadline
       THEN \E ok \in BOOLEAN :
              IF ok
                THEN /\ runTrace' = Append(runTrace,
                                           Event("ensureNotebookLMLoggedIn", "ok", FALSE))
                     /\ runDeadline' = pageReady
                     /\ runPc' = AfterLogin
                     /\ now' = 0
                     /\ runResult' = runResult
                ELSE /\ now' = now + 2000
                     /\ UNCHANGED <<runTrace, runDeadline, runPc, runResult>>
       ELSE /\ runTrace' = Append(runTrace,
                                  Event("ensureNotebookLMLoggedIn", "expired", TRUE))
            /\ runPc' = "done"
            /\ runResult' = "error"
            /\ UNCHANGED <<now, runDeadline>>
  /\ UNCHANGED <<runConfig, inFlight>>
  /\ UNCHANGED notRunVars

\* clickCreateButton, waitForNewNotebookReady (null on expiry, the run throws)
\* and handleUploadDialog.
RunCreateNotebook ==
  /\ runPc = "create"
  /\ \E outcome \in {"created", "noButton", "noNotebook"} :
       /\ runTrace' =
            CASE outcome = "noButton" ->
                   Append(runTrace, Event("clickCreateButton", "failed", TRUE))
              [] outcome = "noNotebook" ->
                   Append(runTrace, Event("waitForNewNotebookReady", "expired", FALSE))
              [] OTHER -> Append(runTrace, Event("waitForNewNotebookReady", "ok", FALSE))
       /\ runPc' = IF outcome = "created" THEN "notebookReady" ELSE "done"
       /\ runResult' = IF outcome = "created" THEN runResult ELSE "error"
       /\ runDeadline' = pageReady
  /\ now' = 0
  /\ UNCHANGED <<runConfig, inFlight>>
  /\ UNCHANGED notRunVars

\* ensureNotebookReady: waitForNotebookApp (while (Date.now() < deadline)
\* { probe; delay(500) } return false), once more for min(timeoutMs * 4,
\* login) on a Google sign-in page, else throw; then delay(2000).
RunNotebookReady ==
  /\ runPc \in {"notebookReady", "extendedReady"}
  /\ IF now < runDeadline
       THEN \E ready \in BOOLEAN :
              IF ready
                THEN /\ runTrace' = Append(runTrace, Event("ensureNotebookReady", "ok", FALSE))
                     /\ now' = 0
                     /\ runPc' = "generate"
                     /\ UNCHANGED <<runDeadline, runResult>>
                ELSE /\ now' = now + 500
                     /\ UNCHANGED <<runTrace, runDeadline, runPc, runResult>>
       ELSE \E onAuthPage \in BOOLEAN :
              IF onAuthPage /\ runPc = "notebookReady"
                THEN /\ runDeadline' = Min(pageReady * 4, login)
                     /\ runPc' = "extendedReady"
                     /\ now' = 0
                     /\ UNCHANGED <<runTrace, runResult>>
                ELSE /\ runTrace' = Append(runTrace,
                                           Event("ensureNotebookReady", "expired", TRUE))
                     /\ runPc' = "done"
                     /\ runResult' = "error"
                     /\ UNCHANGED <<now, runDeadline>>
  /\ UNCHANGED <<runConfig, inFlight>>
  /\ UNCHANGED notRunVars

\* switch (artifactType) { artifact = await generate<Kind>(...) }: a record,
\* null, or a throw that the catch turns into a result with an error.
RunGenerate ==
  /\ runPc = "generate"
  /\ \E outcome \in {"record", "null", "threw"} :
       /\ runTrace' = Append(runTrace, Event("generate", outcome, outcome = "threw"))
       /\ runResult' = CASE outcome = "record" -> "artifact"
                         [] outcome = "null" -> "noArtifact"
                         [] OTHER -> "error"
  /\ runPc' = "done"
  /\ UNCHANGED <<runConfig, inFlight, runDeadline, now>>
  /\ UNCHANGED notRunVars

RunNext ==
  \/ RunValidate
  \/ RunConnect
  \/ RunEnableDomains
  \/ RunCommandReturns
  \/ RunNavigate
  \/ RunDocumentReady
  \/ RunHomepage
  \/ RunLogin
  \/ RunManualLogin
  \/ RunCreateNotebook
  \/ RunNotebookReady
  \/ RunGenerate

SpecRun == RunInit /\ [][RunNext]_vars

\* ------------------------------------------------------------------------
\* getArtifactStatus(Runtime, artifactType) on one snapshot of the page; the
\* evaluation yields the counts or no value.
\* ------------------------------------------------------------------------
StatusInit ==
  /\ now = 0
  /\ slowEvals = 0
  /\ artifacts = << >>
  /\ WaitIdle
  /\ DlIdle
  /\ BatchIdle
  /\ WorkflowIdle
  /\ RunIdle
  /\ GeminiIdle
  /\ callFn = "getArtifactStatus"
  /\ \E page \in SeqsUpTo(ArtifactShapes, MaxPageLen), yields \in BOOLEAN :
       callArgs = [page |-> page, yields |-> yields]
  /\ callResult = Undefined

\* status = result?.value; return status ?? { totalCount: 0, ... }
CallGetArtifactStatus ==
  /\ callFn = "getArtifactStatus"
  /\ callResult = Undefined
  /\ callResult' = Some(IF callArgs.yields THEN getArtifactStatus(callArgs.page)
                        ELSE [totalCount |-> 0, loadingCount |-> 0, readyCount |-> 0])
  /\ UNCHANGED <<callFn, callArgs>>
  /\ UNCHANGED notCallVars

SpecStatus == StatusInit /\ [][CallGetArtifactStatus]_vars

\* ------------------------------------------------------------------------
\* formatFilename(suggested, prefix, artifactType); strings are sequences of
\* characters, indices count from 0 as in the source.
\* ------------------------------------------------------------------------
\* Every kind with the extension of slides.
ExtensionsAllPdf == [t \in ArtifactTypes |-> <<".", "p", "d", "f">>]

ARTIFACT_EXTENSIONS ==
  [t \in ArtifactTypes |->
     CASE t = "slides" -> <<".", "p", "d", "f">>
       [] t = "audio" -> <<".", "w", "a", "v">>
       [] t = "video" -> <<".", "m", "p", "4">>
       [] t = "infographic" -> <<".", "p", "n", "g">>]

\* str.lastIndexOf(ch): -1 when ch does not occur
lastIndexOf(str, ch) ==
  LET at == {k \in 1 .. Len(str) : str[k] = ch}
  IN IF at = {} THEN -1 ELSE (CHOOSE k \in at : \A j \in at : j <= k) - 1

\* str.replace(/\s+/g, '_')
RECURSIVE replaceWhitespace(_)
replaceWhitespace(str) ==
  IF str = << >> THEN << >>
  ELSE IF Head(str) = " "
    THEN IF Len(str) > 1 /\ str[2] = " " THEN replaceWhitespace(Tail(str))
         ELSE <<"_">> \o replaceWhitespace(Tail(str))
    ELSE <<Head(str)>> \o replaceWhitespace(Tail(str))

\* Only a dot that ends the name starts an extension.
hasExtensionDotLast(suggested) ==
  LET lastDot == lastIndexOf(suggested, ".")
  IN lastDot > 0 /\ lastDot = Len(suggested) - 1

hasExtension(suggested) ==
  LET lastDot == lastIndexOf(suggested, ".")
  IN lastDot > 0 /\ lastDot > Len(suggested) - 6

formatFilename(suggested, prefix, type) ==
  LET cleanPrefix == replaceWhitespace(prefix)
      lastDot == lastIndexOf(suggested, ".")
      name == IF hasExtension(suggested) THEN SubSeq(suggested, 1, lastDot) ELSE suggested
      ext == IF hasExtension(suggested) THEN SubSeq(suggested, lastDot + 1, Len(suggested))
             ELSE IF type # Undefined THEN ARTIFACT_EXTENSIONS[ValueOf(type)] ELSE << >>
  IN IF cleanPrefix # << >> THEN cleanPrefix \o <<"_">> \o name \o ext
     ELSE name \o ext

Prefixes == {<< >>, <<"p">>, <<"p", " ", "q">>, <<"p", " ", " ", "q">>}

FormatInit ==
  /\ now = 0
  /\ slowEvals = 0
  /\ artifacts = << >>
  /\ WaitIdle
  /\ DlIdle
  /\ BatchIdle
  /\ WorkflowIdle
  /\ RunIdle
  /\ GeminiIdle
  /\ callFn = "formatFilename"
  /\ \E suggested \in SeqsUpTo({"a", "."}, MaxNameLen) \ {<< >>}, prefix \in Prefixes,
        type \in {Undefined} \cup {Some(t) : t \in ArtifactTypes} :
       callArgs = [suggested |-> suggested, prefix |-> prefix, artifactType |-> type]
  /\ callResult = Undefined

CallFormatFilename ==
  /\ callFn = "formatFilename"
  /\ callResult = Undefined
  /\ callResult' = Some(formatFilename(callArgs.suggested, callArgs.prefix,
                                       callArgs.artifactType))
  /\ UNCHANGED <<callFn, callArgs>>
  /\ UNCHANGED notCallVars

SpecFormat == FormatInit /\ [][CallFormatFilename]_vars

\* ------------------------------------------------------------------------
\* downloadLatestArtifact from the return of triggerArtifactDownload on: the
\* browser has been told to download into an empty output directory, and
\* waitForDownload is called next. The finished download is NamePdf.
\* ------------------------------------------------------------------------
TriggeredInit ==
  /\ DlInit
  /\ dir = << >>

\* The browser finishes the whole download (.crdownload created, written and
\* renamed) before waitForDownload reads the directory.
DownloadLandsEarly ==
  /\ dlPc = "call"
  /\ NamePdf \notin DOMAIN dir
  /\ \E size \in 1 .. MaxFileSize : dir' = WithFile(dir, NamePdf, size)
  /\ UNCHANGED <<now, existingFiles, dlDeadline, dlPc, pending, file, stat1, stat2,
                 stat1At, dlResult>>
  /\ UNCHANGED notDlVars

TriggeredNext ==
  \/ DownloadLandsEarly
  \/ DlNext

SpecTriggered == TriggeredInit /\ [][TriggeredNext]_vars

\* ------------------------------------------------------------------------
\* The loop of downloadAllArtifacts with the files of its downloads: in
\* this machine dir maps a file name to the position whose download wrote
\* the file, pending holds the positions whose download is under way, and
\* waitForDownload is taken by its result (a new file that is not a
\* temporary one, or null).
\* ------------------------------------------------------------------------
\* The name the browser gives the n-th file called a.pdf: a.pdf, a(1).pdf, ...
CopyName(n) ==
  <<"a">> \o (IF n = 0 THEN << >> ELSE <<"(", DigitChars[n + 1], ")">>)
    \o <<".", "p", "d", "f">>

\* The first name of that series that is free in directory d.
FreeName(d) ==
  CopyName(CHOOSE n \in 0 .. MaxRequests :
             /\ CopyName(n) \notin DOMAIN d
             /\ \A m \in 0 .. n - 1 : CopyName(m) \in DOMAIN d)

PositionsInit ==
  /\ now = 0
  /\ slowEvals = 0
  /\ artifacts = << >>
  /\ WaitIdle
  /\ WorkflowIdle
  /\ AuxIdle
  /\ dir = << >>
  /\ existingFiles = {}
  /\ dlDeadline = 0
  /\ dlPc = "idle"
  /\ pending = {}
  /\ file = Undefined
  /\ stat1 = Undefined
  /\ stat2 = Undefined
  /\ stat1At = Undefined
  /\ dlResult = "pending"
  /\ audiences = << >>
  /\ batchInitialCount = 0
  /\ triggered = << >>
  /\ \E n \in 2 .. MaxRequests :
       /\ totalCount = Some(n)
       /\ \E list \in [1 .. n -> {SlideAudiences[1], SlideAudiences[2]}] :
            audienceList = Some(list)
  /\ reqIndex = 0
  /\ expectedCount = Undefined
  /\ batchPc = "position"
  /\ startTime = 0
  /\ allReady = FALSE
  /\ refreshCount = 0
  /\ windowDeadline = 0
  /\ reloadStart = 0
  /\ pageHasContent = TRUE
  /\ submitted = 0
  /\ startIndex = 0
  /\ dlIndex = 0
  /\ results = << >>
  /\ attempted = {}
  /\ skippedLoading = {}
  /\ batchResult = "pending"

\* What the loop of downloadAllArtifacts leaves alone.
notPositionVars ==
  <<now, artifacts, slowEvals, waitVars, workflowVars, auxVars,
    dlDeadline, dlPc, file, stat1, stat2, stat1At, dlResult,
    audiences, batchInitialCount, triggered, reqIndex, expectedCount,
    startTime, allReady, refreshCount, windowDeadline, reloadStart,
    pageHasContent, submitted, audienceList, startIndex, totalCount>>

\* for (let i = startIndex; i < totalCount; i++): still loading (continue),
\* triggerArtifactDownload(i) false (continue) or true; return results.
PositionTrigger ==
  /\ batchPc = "position"
  /\ IF dlIndex < ValueOf(totalCount)
       THEN \E outcome \in {"loading", "triggerFailed", "triggered"} :
              /\ skippedLoading' = IF outcome = "loading" THEN skippedLoading \cup {dlIndex}
                                   ELSE skippedLoading
              /\ attempted' = IF outcome = "loading" THEN attempted
                              ELSE attempted \cup {dlIndex}
              /\ pending' = IF outcome = "triggered" THEN pending \cup {dlIndex}
                            ELSE pending
              /\ dlIndex' = IF outcome = "triggered" THEN dlIndex ELSE dlIndex + 1
              /\ batchPc' = IF outcome = "triggered" THEN "snapshot" ELSE "position"
              /\ batchResult' = batchResult
       ELSE /\ batchPc' = "done"
            /\ batchResult' = "returned"
            /\ UNCHANGED <<skippedLoading, attempted, pending, dlIndex>>
  /\ UNCHANGED <<dir, existingFiles, results>>
  /\ UNCHANGED notPositionVars

\* waitForDownload: existingFiles = new Set(fs.readdirSync(outputDir))
PositionSnapshot ==
  /\ batchPc = "snapshot"
  /\ existingFiles' = DOMAIN dir
  /\ batchPc' = "wait"
  /\ UNCHANGED <<dir, pending, dlIndex, results, attempted, skippedLoading, batchResult>>
  /\ UNCHANGED notPositionVars

\* waitForDownload returns a new file or, none being there, null (continue);
\* then formatFilename, fs.renameSync, results.push and the next position.
PositionReturn ==
  /\ batchPc = "wait"
  /\ LET fresh == {f \in DOMAIN dir : f \notin existingFiles /\ ~isTemporaryDownload(f)}
     IN IF fresh = {}
          THEN UNCHANGED <<dir, results>>
          ELSE \E f \in fresh :
                 LET prefix == PrefixOf(ValueOf(audienceList), dlIndex - startIndex)
                     finalFilename == formatFilename(f, prefix.text, Some("slides"))
                 IN /\ dir' = IF f = finalFilename THEN dir
                              ELSE WithFile(WithoutFile(dir, f), finalFilename, dir[f])
                    /\ results' = Append(results,
                         [index |-> dlIndex, prefix |-> prefix, suggestedFilename |-> f,
                          filename |-> finalFilename, writtenFor |-> dir[f]])
  /\ dlIndex' = dlIndex + 1
  /\ batchPc' = "position"
  /\ UNCHANGED <<existingFiles, pending, attempted, skippedLoading, batchResult>>
  /\ UNCHANGED notPositionVars

\* The browser finishes a download that was triggered, under the first free
\* name; a download can also never finish.
BrowserFinishesDownload ==
  /\ batchPc \in {"position", "snapshot", "wait"}
  /\ \E q \in pending :
       /\ pending' = pending \ {q}
       /\ dir' = WithFile(dir, FreeName(dir), q)
  /\ UNCHANGED <<existingFiles, dlIndex, results, attempted, skippedLoading, batchPc,
                 batchResult>>
  /\ UNCHANGED notPositionVars

PositionsNext ==
  \/ PositionTrigger
  \/ PositionSnapshot
  \/ PositionReturn
  \/ BrowserFinishesDownload

SpecPositions == PositionsInit /\ [][PositionsNext]_vars

\* ------------------------------------------------------------------------
\* waitForGeminiResponse(Runtime, timeoutMs, logger, baselineSnapshot). A
\* snapshot is what readGeminiResponse returns of the last response element:
\* its trimmed text and its markup. Time passes in the delays of the loop.
\* ------------------------------------------------------------------------
\* str.trim(), for the one kind of white space the texts here hold
RECURSIVE trim(_)
trim(str) ==
  IF str = << >> THEN << >>
  ELSE IF Head(str) = " " THEN trim(Tail(str))
  ELSE IF str[Len(str)] = " " THEN trim(SubSeq(str, 1, Len(str) - 1))
  ELSE str

\* The texts a response element can show: none, the previous answer, and
\* two states of the new answer.
ResponseTexts == {<< >>, <<"b">>, <<"t">>, <<"t", "u">>}

\* readGeminiResponse: null, or { text, html, ... } of the last response.
GeminiSnapshots ==
  {Undefined} \cup {Some([text |-> t, html |-> h]) : t \in ResponseTexts, h \in 1 .. MaxMarkups}

\* The baselineSnapshot argument: absent, null, or a snapshot.
BaselineSnapshots ==
  {Undefined} \cup {Some([text |-> t, html |-> 1]) : t \in {<< >>, <<"b">>, <<"b", " ">>}}

GeminiInit ==
  /\ now = 0
  /\ slowEvals = 0
  /\ artifacts = << >>
  /\ WaitIdle
  /\ DlIdle
  /\ BatchIdle
  /\ WorkflowIdle
  /\ CallIdle
  /\ RunIdle
  /\ gmDeadline = now + GeminiTimeoutArgMs
  /\ \E baselineSnapshot \in BaselineSnapshots :
       baselineText = IF baselineSnapshot = Undefined THEN << >>
                      ELSE trim(ValueOf(baselineSnapshot).text)
  /\ lastSnapshot = Undefined
  /\ stableCount = 0
  /\ gmPc = "check"
  /\ unchangedReads = 0
  /\ lastSeen = Undefined
  /\ gmResult = Undefined

\* while (Date.now() < deadline), and what follows the loop: return
\* lastSnapshot if it has text, throw otherwise.
GeminiCheck ==
  /\ gmPc = "check"
  /\ IF now < gmDeadline
       THEN /\ gmPc' = "iterate"
            /\ gmResult' = gmResult
       ELSE /\ gmPc' = "done"
            /\ gmResult' =
                 IF lastSnapshot # Undefined /\ trim(ValueOf(lastSnapshot).text) # << >>
                   THEN Some([kind |-> "timeout", snapshot |-> ValueOf(lastSnapshot)])
                   ELSE Some([kind |-> "threw"])
  /\ UNCHANGED <<now, baselineText, gmDeadline, lastSnapshot, stableCount,
                 unchangedReads, lastSeen>>
  /\ UNCHANGED notGeminiVars

\* One pass of the loop body: thinking (delay 500), still generating
\* (delay 300), or a read of the response: empty (delay 300), the baseline
\* (delay 300), the text of lastSnapshot again (return at the third time),
\* or a new text (delay 400).
GeminiIterate ==
  /\ gmPc = "iterate"
  /\ \E probe \in {"thinking", "generating", "read"} :
       IF probe # "read"
         THEN /\ now' = now + (IF probe = "thinking" THEN 500 ELSE 300)
              /\ gmPc' = "check"
              /\ UNCHANGED <<lastSnapshot, stableCount, unchangedReads, lastSeen, gmResult>>
         ELSE \E snapshot \in GeminiSnapshots :
           LET empty == snapshot = Undefined \/ trim(ValueOf(snapshot).text) = << >>
               isBaseline == /\ ~empty
                             /\ baselineText # << >>
                             /\ trim(ValueOf(snapshot).text) = baselineText
               same == /\ ~empty
                       /\ lastSnapshot # Undefined
                       /\ ValueOf(snapshot).text = ValueOf(lastSnapshot).text
           IN /\ unchangedReads' = IF same /\ ~isBaseline THEN unchangedReads + 1 ELSE 0
              /\ lastSeen' = IF empty \/ isBaseline THEN lastSeen ELSE snapshot
              /\ IF empty \/ isBaseline
                   THEN /\ now' = now + 300
                        /\ gmPc' = "check"
                        /\ UNCHANGED <<lastSnapshot, stableCount, gmResult>>
                   ELSE IF same
                     THEN /\ stableCount' = stableCount + 1
                          /\ lastSnapshot' = lastSnapshot
                          /\ IF stableCount + 1 >= 3
                               THEN /\ gmPc' = "done"
                                    /\ gmResult' = Some([kind |-> "stable",
                                                         snapshot |-> ValueOf(snapshot)])
                                    /\ now' = now
                               ELSE /\ gmPc' = "check"
                                    /\ gmResult' = gmResult
                                    /\ now' = now + 400
                     ELSE /\ stableCount' = 0
                          /\ lastSnapshot' = snapshot
                          /\ gmPc' = "check"
                          /\ gmResult' = gmResult
                          /\ now' = now + 400
  /\ UNCHANGED <<baselineText, gmDeadline>>
  /\ UNCHANGED notGeminiVars

GeminiNext == GeminiCheck \/ GeminiIterate

SpecGemini == GeminiInit /\ [][GeminiNext]_vars

\* ------------------------------------------------------------------------
\* Properties of waitForArtifactReady and isArtifactLoading
\* ------------------------------------------------------------------------

\* C1 (as stated): waitForArtifactReady returns true only on a poll taken
\* before the deadline; once the deadline has passed it returns false.
C1_TrueOnlyBeforeDeadline ==
  waitResult = "true" => ValueOf(pollTime) < deadline

\* C1 (amended): waitForArtifactReady returns true if and only if some poll
\* of an iteration entered before the deadline observed a count greater than
\* initialCount and the last artifact classified not loading (the poll itself
\* may fall on or after the deadline); it returns false only once the loop
\* condition finds the deadline reached, and then no poll has observed both,
\* even when the count rose.
C1_TrueIffReadyPollSeen ==
  /\ (waitResult = "true") <=> readyPollSeen
  /\ waitResult = "true" =>
       /\ ValueOf(iterStart) < deadline
       /\ ValueOf(currentCount) > initialCount
       /\ loading = Some(FALSE)
  /\ waitResult = "false" => (now >= deadline /\ ~readyPollSeen)

\* A run that returns true on a poll taken at or after the deadline.
C1_Witness ==
  /\ waitResult = "true"
  /\ ValueOf(currentCount) > initialCount
  /\ ValueOf(pollTime) >= deadline

\* C2: whenever isArtifactLoading classifies an artifact whose container
\* carries any of the four signals (shimmer class, disabled control,
\* generating title, rotating icon) it returns true, and it returns false
\* only when all four are absent.
C2_AnySignalMeansLoading ==
  [][(/\ waitPc = "loading"
      /\ waitPc' # "loading"
      /\ Len(artifacts) > 0
      /\ artifacts[Len(artifacts)].container)
       => (ValueOf(loading') <=> AnySignal(artifacts[Len(artifacts)]))]_vars

\* ------------------------------------------------------------------------
\* Properties of waitForDownload
\* ------------------------------------------------------------------------

\* C3: waitForDownload returns a file only after two measurements of its
\* size, taken a settle delay apart, that are equal and not zero; a listing
\* alone never confirms a file.
C3_ConfirmedOnlyStableNonZero ==
  dlResult = "file" =>
    /\ stat1 # Undefined
    /\ stat2 # Undefined
    /\ ValueOf(stat1) = ValueOf(stat2)
    /\ ValueOf(stat2) > 0
    /\ now >= ValueOf(stat1At) + downloadSettleMs
    /\ ValueOf(file) \in DOMAIN dir
    /\ dir[ValueOf(file)] = ValueOf(stat2)

\* A new file whose two measurements differed was passed over.
C3_Witness ==
  /\ dlPc = "scan"
  /\ dlResult = "pending"
  /\ stat2 # Undefined
  /\ ValueOf(stat1) # ValueOf(stat2)

\* C4: waitForDownload never returns a file whose name ends in .crdownload
\* or .tmp or starts with a dot, whatever its sizes were.
C4_NeverTemporaryName ==
  dlResult = "file" =>
    /\ ~EndsWith(ValueOf(file), DotCrdownload)
    /\ ~EndsWith(ValueOf(file), DotTmp)
    /\ ~StartsWith(ValueOf(file), Dot)

\* A file is returned while new, non-empty files with a temporary name of
\* each of the three forms sit in the directory.
C4_Witness ==
  /\ dlResult = "file"
  /\ \A n \in {NamePartial, NameTmp, NameHidden} :
       /\ n \in DOMAIN dir
       /\ n \notin existingFiles
       /\ dir[n] > 0

\* ------------------------------------------------------------------------
\* Properties of batchGenerateSlides and downloadAllArtifacts
\* ------------------------------------------------------------------------
Phase1Over == batchPc \notin {"idle", "start", "trigger"} /\ Len(triggered) > 0

\* C5: the triggered list is never longer than the request list, and once
\* phase 1 is over with at least one request triggered, expectedCount is
\* initialCount plus the number of triggered requests, whichever requests
\* failed to trigger.
C5_ExpectedCountFromTriggered ==
  /\ Len(triggered) <= Len(audiences)
  /\ Phase1Over =>
       /\ expectedCount # Undefined
       /\ ValueOf(expectedCount) = batchInitialCount + Len(triggered)

\* Phase 2 running after a phase 1 in which some request failed to trigger
\* and some other succeeded.
C5_Witness ==
  /\ batchPc = "initialDelay"
  /\ Len(triggered) > 0
  /\ Len(triggered) < Len(audiences)
  /\ ValueOf(expectedCount) = batchInitialCount + Len(triggered)

C7_EveryIndexAttempted ==
  (batchResult = "returned" /\ Len(triggered) > 0) =>
    /\ totalCount # Undefined
    /\ \A i \in batchInitialCount .. ValueOf(totalCount) - 1 : i \in attempted

\* C7: a run that triggered at least one request and returned has run phase
\* 3, whether or not all expected artifacts became ready, and has walked
\* every index from initialCount to the count read at the start of phase 3:
\* each was either skipped as still loading or given a download attempt,
\* never both.
C7_EveryIndexAttemptedOrSkipped ==
  /\ (batchResult = "returned" /\ Len(triggered) > 0) =>
       /\ totalCount # Undefined
       /\ \A i \in batchInitialCount .. ValueOf(totalCount) - 1 :
            i \in attempted \cup skippedLoading
  /\ attempted \cap skippedLoading = {}
  /\ totalCount # Undefined =>
       attempted \cup skippedLoading \subseteq batchInitialCount .. ValueOf(totalCount) - 1

\* A returned run whose phase 2 ended without all artifacts ready, and whose
\* phase 3 skipped a loading artifact and attempted another download.
C7_Witness ==
  /\ batchResult = "returned"
  /\ ~allReady
  /\ skippedLoading # {}
  /\ attempted # {}

\* C8: phase 2 (the initial wait, the refresh cycles with their page reloads
\* and the last poll sleep) is left no later than MAX_TOTAL_MS after it
\* started.
C8_Phase2WithinCeiling ==
  batchPc = "download" => now - startTime <= MAX_TOTAL_MS

\* C9: in downloadAllArtifacts a failed position (no download trigger, a
\* download timeout, an error while renaming) does not abort the run: when
\* the run is over every position has been reached, and it returned.
C9_FailedPositionNeverAborts ==
  (batchPc = "done" /\ totalCount # Undefined) =>
    /\ batchResult = "returned"
    /\ \A i \in startIndex .. ValueOf(totalCount) - 1 :
         i \in attempted \cup skippedLoading

\* ------------------------------------------------------------------------
\* Properties of the generation workflows
\* ------------------------------------------------------------------------
\* C10: in every workflow, the dialog that is configured and the dialog whose
\* Generate button is clicked is one that a waitForDialog verified to contain
\* the customization keyword; another dialog that is open is never
\* configured or submitted.
C10_OnlyVerifiedDialogConfigured ==
  /\ configured # Undefined =>
       /\ verified # Undefined
       /\ HasCustomizationKeyword(ValueOf(configured))
  /\ clicked # Undefined =>
       /\ verified # Undefined
       /\ HasCustomizationKeyword(ValueOf(clicked))

\* ------------------------------------------------------------------------
\* Properties of clickGenerateButton
\* ------------------------------------------------------------------------
\* C11: whichever of its three tiers finds it, the button clickGenerateButton
\* clicks never has a label containing cancel, close, insert, submit, save or
\* back.
C11_NeverClicksSkippedLabel ==
  (callFn = "clickGenerateButton" /\ callResult # Undefined /\ ValueOf(callResult) # 0) =>
    ~shouldSkip(callArgs.dialog.buttons[ValueOf(callResult)].words)

\* ------------------------------------------------------------------------
\* Properties of the stages of a generation workflow
\* ------------------------------------------------------------------------
\* C12: in each generate<Kind> workflow a stage that fails (open dialog,
\* verify dialog, configure fields, submit, wait for readiness, download) is
\* the last stage run, and the workflow returns null without throwing.
C12_FailedStageIsLastAndNull ==
  workflow \in Workflows \ {"triggerSlideGeneration"} =>
    \A k \in 1 .. Len(stages) :
      ~stages[k].ok => /\ k = Len(stages)
                       /\ wfPc = "done"
                       /\ wfResult = "null"

\* C13: a workflow in which a remote evaluation rejected ends by throwing to
\* its caller, never by returning null or a result.
C13_RejectedEvaluationThrows ==
  evalFailed => wfPc = "done" /\ wfResult = "threw"

C13_Witness ==
  /\ evalFailed
  /\ wfResult = "threw"
  /\ Len(stages) >= 2

\* ------------------------------------------------------------------------
\* Properties of the wait loops
\* ------------------------------------------------------------------------
LoopsOver ==
  /\ waitPc \in {"idle", "done"}
  /\ dlPc \in {"idle", "done"}
  /\ batchPc \in {"idle", "done"}
  /\ wfPc \in {"idle", "done"}

\* C14: when every remote evaluation and every delay returns, every wait
\* loop ends: waitForArtifactReady, waitForMultipleArtifactsReady,
\* waitForDialog, waitForDownload, refreshPage and the two loops of phase 2
\* of the batch all leave their loop, and the function that runs them returns.
C14_EveryWaitLoopEnds == <>LoopsOver

C14_Witness ==
  /\ callFn = "waitForMultipleArtifactsReady"
  /\ waitPc = "done"
  /\ now >= deadline
  /\ callResult = Some(0)

\* ------------------------------------------------------------------------
\* Properties of runNotebookLMBrowserMode
\* ------------------------------------------------------------------------
\* C15: no bounded wait reports the expiry of its budget by throwing; the
\* page-ready, manual-login and notebook-ready waits of the run included,
\* an expired wait hands a not-ready value to its caller.
C15_ExpiredWaitNeverThrows ==
  \A k \in 1 .. Len(runTrace) : runTrace[k].outcome = "expired" => ~runTrace[k].threw

\* C16: at no time are two commands against the browser in flight at once.
C16_AtMostOneCommandInFlight == Cardinality(inFlight) <= 1

\* ------------------------------------------------------------------------
\* Properties of getArtifactStatus
\* ------------------------------------------------------------------------
\* C17: the status computed from one snapshot has totalCount = loadingCount +
\* readyCount and 0 <= loadingCount <= totalCount; when the evaluation yields
\* no value the status is all zero.
C17_StatusCountsAddUp ==
  (callFn = "getArtifactStatus" /\ callResult # Undefined) =>
    LET status == ValueOf(callResult)
    IN /\ status.totalCount = status.loadingCount + status.readyCount
       /\ 0 <= status.loadingCount
       /\ status.loadingCount <= status.totalCount
       /\ ~callArgs.yields =>
            status = [totalCount |-> 0, loadingCount |-> 0, readyCount |-> 0]

C17_Witness ==
  /\ callFn = "getArtifactStatus"
  /\ callResult # Undefined
  /\ ValueOf(callResult).loadingCount = 1
  /\ ValueOf(callResult).readyCount = 1

\* ------------------------------------------------------------------------
\* Properties of formatFilename
\* ------------------------------------------------------------------------
\* C18: for a suggested name without a dot and a given kind the result ends
\* in the default extension of the kind: .png for infographic, .pdf for
\* slides, .wav for audio, .mp4 for video, with or without a prefix.
C18_DefaultExtensionAdded ==
  (/\ callFn = "formatFilename"
   /\ callResult # Undefined
   /\ callArgs.artifactType # Undefined
   /\ lastIndexOf(callArgs.suggested, ".") = -1) =>
    LET type == ValueOf(callArgs.artifactType)
    IN EndsWith(ValueOf(callResult),
                CASE type = "infographic" -> <<".", "p", "n", "g">>
                  [] type = "slides" -> <<".", "p", "d", "f">>
                  [] type = "audio" -> <<".", "w", "a", "v">>
                  [] type = "video" -> <<".", "m", "p", "4">>)

C18_Witness ==
  /\ callFn = "formatFilename"
  /\ callArgs = [suggested |-> <<"a", "a">>, prefix |-> <<"p", " ", "q">>,
                 artifactType |-> Some("infographic")]
  /\ callResult = Some(<<"p", "_", "q", "_", "a", "a", ".", "p", "n", "g">>)

\* A dot after the first character with one to four characters behind it.
ShortExtensionAt(suggested, dot) ==
  /\ dot = lastIndexOf(suggested, ".")
  /\ dot > 0
  /\ Len(suggested) - 1 - dot \in 1 .. 4

\* C19: for a suggested name that ends in a dot and one to four characters,
\* the result ends in that extension and not in the default of the kind.
C19_OriginalExtensionKept ==
  (callFn = "formatFilename" /\ callResult # Undefined) =>
    \A dot \in 1 .. MaxNameLen :
      ShortExtensionAt(callArgs.suggested, dot) =>
        /\ EndsWith(ValueOf(callResult),
                    SubSeq(callArgs.suggested, dot + 1, Len(callArgs.suggested)))
        /\ \A t \in ArtifactTypes : ~EndsWith(ValueOf(callResult), ARTIFACT_EXTENSIONS[t])

C19_Witness ==
  /\ callFn = "formatFilename"
  /\ callArgs = [suggested |-> <<"a", ".", "a", "a", "a", "a">>, prefix |-> <<"p">>,
                 artifactType |-> Some("slides")]
  /\ callResult = Some(<<"p", "_", "a", ".", "a", "a", "a", "a">>)

\* C20: formatFilename applied with the same prefix and kind to a name it
\* produced returns that name unchanged; the prefix is not added again.
C20_FormatFilenameIdempotent ==
  (callFn = "formatFilename" /\ callResult # Undefined) =>
    formatFilename(ValueOf(callResult), callArgs.prefix, callArgs.artifactType)
      = ValueOf(callResult)

\* ------------------------------------------------------------------------
\* Properties of the polls of waitForArtifactReady
\* ------------------------------------------------------------------------
\* C21: waitForArtifactReady returns true at the first poll that reads a
\* count above initialCount and finds the latest artifact not loading: a
\* poll ends the wait with true exactly when it reads both, and nothing but
\* such a poll makes the result true.
C21_TrueAtFirstReadyPoll ==
  [][/\ (waitPc = "loading" /\ waitPc' # "loading") =>
          ((waitResult' = "true") <=>
             (ValueOf(currentCount) > initialCount /\ ~isArtifactLoading(artifacts, -1)))
     /\ (waitResult # "true" /\ waitResult' = "true") =>
          (waitPc = "loading" /\ ValueOf(currentCount) > initialCount)]_vars

\* Initial count 2, a third artifact, true returned by the fourth poll.
C21_Witness ==
  /\ initialCount = 2
  /\ Len(artifacts) = 3
  /\ waitResult = "true"
  /\ ValueOf(pollTime) \div artifactPoll = 4

\* ------------------------------------------------------------------------
\* Properties of the order of a run
\* ------------------------------------------------------------------------
\* C22: a run in mode 'existing' (or without a mode) and without a
\* notebookUrl throws before a browser is launched or connected and before
\* any command is sent to one.
C22_MissingUrlThrowsFirst ==
  (runPc # "idle" /\ RunMode = "existing" /\ ~runConfig.notebookUrl) =>
    /\ runTrace = << >>
    /\ inFlight = {}
    /\ runPc \in {"validate", "done"}
    /\ runPc = "done" => runResult = "threw"

C22_Witness ==
  /\ runPc = "done"
  /\ runConfig.mode = Undefined
  /\ ~runConfig.notebookUrl
  /\ runConfig.remoteChrome
  /\ runResult = "threw"

\* C23: a generate<Kind> call is made only after the login check and then
\* the notebook-ready wait succeeded in the same run; when either fails the
\* run makes no further step.
C23_GenerateOnlyAfterLoginAndReady ==
  \A k \in 1 .. Len(runTrace) :
    /\ runTrace[k].step = "generate" =>
         \E i \in 1 .. k, j \in 1 .. k :
           /\ i < j
           /\ j < k
           /\ runTrace[i] = Event("ensureNotebookLMLoggedIn", "ok", FALSE)
           /\ runTrace[j] = Event("ensureNotebookReady", "ok", FALSE)
    /\ (/\ runTrace[k].step \in {"ensureNotebookLMLoggedIn", "ensureNotebookReady"}
        /\ runTrace[k].outcome # "ok") =>
         (k = Len(runTrace) /\ runPc = "done" /\ runResult = "error")

C23_Witness ==
  /\ runPc = "done"
  /\ runConfig.mode = Some("createNew")
  /\ runConfig.manualLogin
  /\ runTrace[Len(runTrace)] = Event("generate", "record", FALSE)

\* ------------------------------------------------------------------------
\* Properties of what clickGenerateButton reports, and of the defaults
\* ------------------------------------------------------------------------
\* C24: what clickGenerateButton reports for a dialog whose Generate button
\* is there but disabled differs from what it reports when the dialog has no
\* such button.
C24_DisabledDiffersFromMissing ==
  (/\ callFn = "clickGenerateButton"
   /\ callResult # Undefined
   /\ ValueOf(callResult) = 0
   /\ \E k \in 1 .. Len(callArgs.dialog.buttons) :
        /\ callArgs.dialog.buttons[k].disabled
        /\ "generate" \in callArgs.dialog.buttons[k].words) =>
    (ValueOf(callResult) # 0)
      # (clickGenerateButton([callArgs.dialog EXCEPT !.buttons = << >>]) # 0)

\* C25: the default generation timeouts of the four kinds differ pairwise,
\* and so do their default file extensions.
C25_DefaultsPairwiseDistinct ==
  artifactType \in ArtifactTypes =>
    \A t \in ArtifactTypes \ {artifactType} :
      /\ getArtifactTimeout(t) # getArtifactTimeout(artifactType)
      /\ ARTIFACT_EXTENSIONS[t] # ARTIFACT_EXTENSIONS[artifactType]

\* ------------------------------------------------------------------------
\* Properties of the order of a generation workflow
\* ------------------------------------------------------------------------
StageAt(k, name) == k \in 1 .. Len(stages) /\ stages[k].stage = name

\* C26: a download is triggered only after the wait for the new artifact
\* returned true in the same invocation, the wait starts only after a
\* successful Generate click, and the wait is given the count that was taken
\* before the dialog was opened.
C26_DownloadAfterReadyAfterClick ==
  \A k \in 1 .. Len(stages) :
    /\ StageAt(k, "download") =>
         \E j \in 1 .. k - 1 : StageAt(j, "ready") /\ stages[j].ok
    /\ StageAt(k, "ready") =>
         /\ \E j \in 1 .. k - 1 : StageAt(j, "submit") /\ stages[j].ok
         /\ \E c \in 1 .. k - 1 :
              /\ StageAt(c, "count")
              /\ stages[k].initialCount = stages[c].count
              /\ \A o \in 1 .. Len(stages) : StageAt(o, "open") => c < o

C26_Witness ==
  /\ wfPc = "done"
  /\ workflow = "generateVideo"
  /\ wfResult = "record"
  /\ stages[Len(stages)].stage = "download"
  /\ Len(artifacts) = 2
  /\ \E k \in 1 .. Len(stages) : StageAt(k, "ready") /\ stages[k].initialCount = 1

\* ------------------------------------------------------------------------
\* Properties of waitForDialog
\* ------------------------------------------------------------------------
\* C27: a poll of waitForDialog called with a keyword, made before the
\* deadline, that observes a visible dialog whose text contains the keyword
\* anywhere ends the wait with true; it never counts as a negative poll
\* that is followed by the poll delay.
C27_KeywordAnywhereAccepted ==
  [][(/\ wfPc = "wait"
      /\ now < wfDeadline
      /\ WaitForDialogCalls(workflow)[waitCall].expectedText # Undefined
      /\ dialogs # << >>
      /\ dialogs[1].visible
      /\ ValueOf(WaitForDialogCalls(workflow)[waitCall].expectedText) \in TextOf(dialogs[1]))
       => now' = now]_vars

\* ------------------------------------------------------------------------
\* Properties of the priority of clickGenerateButton
\* ------------------------------------------------------------------------
ClickCalled == callFn = "clickGenerateButton" /\ callResult # Undefined

EnabledWith(d, P(_)) == {k \in 1 .. Len(d.buttons) : ~d.buttons[k].disabled /\ P(d.buttons[k])}

TextHasGenerate(b) == "generate" \in b.words
AriaHasGenerate(b) == "generate" \in b.aria
IsPrimary(b) == b.color \in {"primary", "accent"}
TextGenerateNoSkip(b) == TextHasGenerate(b) /\ ~shouldSkip(b.words)
PrimaryNoSkip(b) == IsPrimary(b) /\ ~shouldSkip(b.words)

\* The button clicked under a strict priority of three tiers, 0 when no tier
\* has a button: r is in the first tier that is not empty.
ByPriority(r, T1, T2, T3) ==
  /\ T1 # {} => r \in T1
  /\ (T1 = {} /\ T2 # {}) => r \in T2
  /\ (T1 = {} /\ T2 = {} /\ T3 # {}) => r \in T3
  /\ (T1 = {} /\ T2 = {} /\ T3 = {}) => r = 0

\* C28 as stated: clickGenerateButton clicks an enabled button whose text
\* contains 'generate' if one exists; otherwise an enabled button whose
\* aria-label contains 'generate'; otherwise, and only if the dialog text
\* contains customise or customize, an enabled primary or accent button; it
\* never clicks a disabled button and returns false when no tier matches.
C28_StrictPriority ==
  ClickCalled =>
    LET d == callArgs.dialog
        r == ValueOf(callResult)
    IN /\ ByPriority(r, EnabledWith(d, TextHasGenerate), EnabledWith(d, AriaHasGenerate),
                     IF HasCustomizationKeyword(d) THEN EnabledWith(d, IsPrimary) ELSE {})
       /\ r # 0 => ~d.buttons[r].disabled

\* C28: clickGenerateButton clicks the first enabled button whose text
\* contains 'generate' and none of the labels cancel, close, insert, submit,
\* save, back, if one exists; otherwise the first enabled button whose
\* aria-label contains 'generate', whatever its text; otherwise, and only if
\* the dialog text contains customise or customize, the first enabled
\* primary or accent button whose text has none of those labels; it never
\* clicks a disabled button and returns false when no tier matches.
C28_StrictPriorityBarringSkipped ==
  ClickCalled =>
    LET d == callArgs.dialog
        r == ValueOf(callResult)
        T1 == EnabledWith(d, TextGenerateNoSkip)
        T2 == EnabledWith(d, AriaHasGenerate)
        T3 == IF HasCustomizationKeyword(d) THEN EnabledWith(d, PrimaryNoSkip) ELSE {}
        used == IF T1 # {} THEN T1 ELSE IF T2 # {} THEN T2 ELSE T3
    IN /\ ByPriority(r, T1, T2, T3)
       /\ r # 0 => /\ ~d.buttons[r].disabled
                   /\ \A k \in used : r <= k

\* The second button is clicked through its aria-label while the first, an
\* enabled button, reads 'generate' along with a barred label.
C28_Witness ==
  /\ ClickCalled
  /\ ValueOf(callResult) = 2
  /\ ~callArgs.dialog.buttons[1].disabled
  /\ callArgs.dialog.buttons[1].words = {"generate", "cancel"}
  /\ callArgs.dialog.buttons[1].aria = {}
  /\ callArgs.dialog.buttons[2].words = {}

C30_PrefixFromPosition ==
  \A j \in 1 .. Len(results) :
    LET k == results[j].index - batchInitialCount
    IN /\ k >= 0
       /\ k < Len(triggered)
       /\ k + 1 < 10
       /\ results[j].prefix.text = <<"0", DigitChars[k + 2], "_", triggered[k + 1]>>
       /\ \A i \in 1 .. j - 1 : results[i].index < results[j].index

\* A record of the second new artifact, named 02 after the second triggered
\* request, in a run whose first new artifact was skipped as still loading.
C30_Witness ==
  /\ batchInitialCount \in skippedLoading
  /\ Len(triggered) >= 2
  /\ Len(results) = 1
  /\ results[1].index = batchInitialCount + 1
  /\ results[1].prefix.text = <<"0", "2", "_", triggered[2]>>

\* ------------------------------------------------------------------------
\* Properties of phase 2 of batchGenerateSlides
\* ------------------------------------------------------------------------
Phase2Polling == batchPc \in {"initialPoll", "refreshPoll"}

\* C31: phase 2 is left before MAX_TOTAL_MS has passed only after a status
\* poll that found at least expectedCount artifacts and none of them
\* loading; allReady is set by such a poll alone, and once it is set the run
\* makes no further delay, poll or reload.
C31_EarlyStopOnlyAfterReadyPoll ==
  [][/\ (batchPc = "refreshCheck" /\ batchPc' = "download"
           /\ now - startTime < MAX_TOTAL_MS) => allReady
     /\ allReady' # allReady => Phase2Polling
     /\ Phase2Polling /\ batchPc' # batchPc =>
          (allReady' <=> /\ Len(artifacts) >= ValueOf(expectedCount)
                         /\ \A k \in 1 .. Len(artifacts) : ~ShowsLoading(artifacts[k]))
     /\ allReady =>
          batchPc' \notin {"initialCheck", "initialDelay", "initialPoll", "reload",
                           "reloadCheck", "refreshWindowCheck", "refreshDelay",
                           "refreshPoll"}]_vars

\* Phase 2 left after one reload, before the ceiling, with all artifacts
\* ready.
C31_Witness ==
  /\ batchPc = "download"
  /\ allReady
  /\ refreshCount = 1
  /\ now - startTime < MAX_TOTAL_MS

C33_ShrunkPageNeverReady ==
  [][(/\ waitPc = "loading"
      /\ Len(artifacts) < ValueOf(currentCount))
       => waitResult' # "true"]_vars

\* ------------------------------------------------------------------------
\* Properties of a download that races waitForDownload
\* ------------------------------------------------------------------------
\* C34: waitForDownload does not give up (return null) while the finished
\* download lies in the output directory as a non-empty file, also when it
\* lay there already at the snapshot of the existing files.
C34_LandedDownloadReturned ==
  dlResult = "null" =>
    ~(/\ NamePdf \in existingFiles
      /\ NamePdf \in DOMAIN dir
      /\ dir[NamePdf] > 0)

\* ------------------------------------------------------------------------
\* Properties of the files that downloadAllArtifacts records
\* ------------------------------------------------------------------------
\* C35: every record of downloadAllArtifacts names the file that the
\* download triggered for the record's own position wrote, never the file
\* of an earlier position that arrived late.
C35_RecordNamesOwnDownload ==
  \A k \in 1 .. Len(results) : results[k].writtenFor = results[k].index

\* C38: the records of one downloadAllArtifacts call have pairwise
\* distinct final filenames, and every recorded file is still in the
\* directory with the content it was recorded with: no later download of
\* the call has overwritten it.
C38_FinalNamesDistinct ==
  /\ \A j, k \in 1 .. Len(results) :
       j # k => results[j].filename # results[k].filename
  /\ \A k \in 1 .. Len(results) :
       /\ results[k].filename \in DOMAIN dir
       /\ dir[results[k].filename] = results[k].writtenFor

\* Two positions whose downloads arrived under the same name are recorded.
C38_Witness ==
  \E j, k \in 1 .. Len(results) :
    /\ j # k
    /\ results[j].suggestedFilename = results[k].suggestedFilename

\* ------------------------------------------------------------------------
\* Properties of the dialog a workflow leaves behind
\* ------------------------------------------------------------------------
\* C36: when a generation or trigger workflow has returned, no
\* customization dialog is open on the page; stated for the returns after
\* a failed verify stage (waitForDialog) and a failed submit stage
\* (clickGenerateButton).
C36_DialogClosedOnReturn ==
  (/\ wfPc = "done"
   /\ wfResult = "null"
   /\ stages # << >>
   /\ stages[Len(stages)].stage \in {"verify", "submit"}
   /\ ~stages[Len(stages)].ok)
    => \A k \in 1 .. Len(dialogs) : ~HasCustomizationKeyword(dialogs[k])

\* ------------------------------------------------------------------------
\* Properties of the loading classification
\* ------------------------------------------------------------------------
\* C37: on one page, the loadingCount of getArtifactStatus is the number
\* of indices for which isArtifactLoading is true, and the download loop
\* skips an index as still loading exactly when isArtifactLoading is true
\* for it.
C37_LoadingClassifiedAlike ==
  (callFn = "getArtifactStatus" /\ callResult # Undefined /\ callArgs.yields) =>
    LET page == callArgs.page
        indices == 0 .. Len(page) - 1
    IN /\ ValueOf(callResult).loadingCount
            = Cardinality({i \in indices : isArtifactLoading(page, i)})
       /\ \A i \in 0 .. Len(page) :
            LoadResult(page, i).loading <=> isArtifactLoading(page, i)

\* A page with one loading artifact and one that is only disabled.
C37_Witness ==
  /\ callFn = "getArtifactStatus"
  /\ callResult # Undefined
  /\ callArgs.yields
  /\ ValueOf(callResult).loadingCount = 1
  /\ \E k \in 1 .. Len(callArgs.page) :
       callArgs.page[k].isDisabled /\ ~ShowsLoading(callArgs.page[k])

\* ------------------------------------------------------------------------
\* Properties of waitForGeminiResponse
\* ------------------------------------------------------------------------
\* C39: a snapshot returned ahead of the deadline has a non-empty text that
\* differs from the baseline and that the three latest reads, all later
\* than the read that first saw it, returned one after the other; at the
\* timeout
\* the latest snapshot seen that was neither empty nor the baseline is
\* returned, and the function throws only when there was none; no returned
\* snapshot has the baseline as its trimmed text.
C39_ReturnsSettledText ==
  gmPc = "done" =>
    LET r == ValueOf(gmResult) IN
    /\ r.kind = "stable" =>
         /\ r.snapshot.text # << >>
         /\ r.snapshot.text # baselineText
         /\ unchangedReads >= 3
    /\ r.kind = "timeout" => Some(r.snapshot) = lastSeen
    /\ r.kind = "threw" => lastSeen = Undefined
    /\ r.kind # "threw" => trim(r.snapshot.text) # baselineText

====
